---- MODULE Spec2Model ----
(***************************************************************************)
(* Tabular filter engine of advanced_table_filtering.                       *)
(*                                                                         *)
(* Two layers are modelled:                                                *)
(*   - src/lib/filter_engine.py: apply_single_filter and                   *)
(*     apply_multiple_filters as operators over a small DataFrame model;   *)
(*   - src/app.py: the Dash callbacks that keep the filter set in the      *)
(*     filter-set store and refresh the table view.                        *)
(*                                                                         *)
(* Values.  A scalar is an atom [k, n, s]:                                 *)
(*   k = "text"  a Python str, s its characters (1-character strings);     *)
(*   k = "num"   a float, n its value (the tables hold whole numbers);     *)
(*   k = "none"  Python None;   k = "nan"  the float NaN;                  *)
(*   k = "date"  a Timestamp, n its day written yyyymmdd;                  *)
(*   k = "nat"   the missing Timestamp NaT.                                *)
(* A filter value is [shape, items] with shape "scalar", "list" or         *)
(* "tuple".                                                                *)
(***************************************************************************)
EXTENDS Integers, Sequences, FiniteSets, TLC

VARIABLES
    table_data_store,       \* dcc.Store table-data-store
    filter_set_store,       \* dcc.Store filter-set-store
    visible_columns_store,  \* dcc.Store visible-columns-store
    table_container_view,   \* children of table-container
    row_count_view,         \* children of row-count-display
    filter_status_view,     \* children of filter-status
    conditions_list_view,   \* children of filter-conditions-list
    filter_form,            \* filter-column, -operator, -value, -value-multi, -value2
    filter_logic_value,     \* value of the filter-logic radio items
    filter_ui_shown,        \* whether filter-ui-container holds the filter UI
    last_call,              \* the callback that ran last, with its inputs
    download_csv,           \* data of dcc.Download download-csv
    eng_df,          \* engine run: the DataFrame handed to the engine
    eng_conds,       \* engine run: the list of filter conditions
    eng_out,         \* engine run: last apply_multiple_filters call and its outcome
    eng_single,      \* engine run: last apply_single_filter call and its outcome
    eng_valid,       \* engine run: last validate_filter_operator call and its outcome
    proc_raw,        \* processor run: the parsed frame handed to data_processor
    proc_out         \* processor run: last data_processor call and its outcome

app_vars == <<table_data_store, filter_set_store, visible_columns_store,
              table_container_view, row_count_view, filter_status_view,
              conditions_list_view, filter_form, filter_logic_value,
              filter_ui_shown, last_call, download_csv>>

engine_vars == <<eng_df, eng_conds, eng_out, eng_single, eng_valid,
                 proc_raw, proc_out>>

vars == <<app_vars, engine_vars>>

-----------------------------------------------------------------------------
(* Atoms and filter values                                                 *)

TextV(s) == [k |-> "text", n |-> 0, s |-> s]
NumV(n)  == [k |-> "num",  n |-> n, s |-> <<>>]
IntV(n)  == [k |-> "int",  n |-> n, s |-> <<>>]
NoneV    == [k |-> "none", n |-> 0, s |-> <<>>]
NaNV     == [k |-> "nan",  n |-> 0, s |-> <<>>]
DateV(n) == [k |-> "date", n |-> n, s |-> <<>>]
NaTV     == [k |-> "nat",  n |-> 0, s |-> <<>>]

IsNull(a) == a.k \in {"none", "nan", "nat"}

Scalar(a)   == [shape |-> "scalar", items |-> <<a>>]
ListV(as)   == [shape |-> "list",   items |-> as]
TupleV(a, b) == [shape |-> "tuple", items |-> <<a, b>>]

\* str.lower() on the characters the model uses.
Lower(c) ==
    CASE c = "A" -> "a"
      [] c = "B" -> "b"
      [] c = "N" -> "n"
      [] OTHER   -> c

LowerStr(s) == [i \in 1..Len(s) |-> Lower(s[i])]

DigitChar(d) ==
    CASE d = 0 -> "0" [] d = 1 -> "1" [] d = 2 -> "2" [] d = 3 -> "3"
      [] d = 4 -> "4" [] d = 5 -> "5" [] d = 6 -> "6" [] d = 7 -> "7"
      [] d = 8 -> "8" [] d = 9 -> "9"

RECURSIVE NatToStr(_)
NatToStr(n) == IF n < 10 THEN <<DigitChar(n)>>
               ELSE Append(NatToStr(n \div 10), DigitChar(n % 10))

\* str() of a scalar: a float prints with its fractional part ("5.0"),
\* an int prints its digits, None prints "None", NaN prints "nan".
StrOf(a) ==
    CASE a.k = "text" -> a.s
      [] a.k \in {"num", "int"}
                      -> (IF a.n < 0 THEN <<"-">> ELSE <<>>)
                         \o NatToStr(IF a.n < 0 THEN 0 - a.n ELSE a.n)
                         \o (IF a.k = "num" THEN <<".", "0">> ELSE <<>>)
      [] a.k = "none" -> <<"N", "o", "n", "e">>
      [] a.k = "nan"  -> <<"n", "a", "n">>


-----------------------------------------------------------------------------
(* Python string and comparison primitives                                 *)

\* ord() restricted to the characters the model uses.
Ord(c) ==
    CASE c = "." -> 46
      [] c = "0" -> 48 [] c = "1" -> 49 [] c = "2" -> 50 [] c = "3" -> 51
      [] c = "4" -> 52 [] c = "5" -> 53 [] c = "6" -> 54 [] c = "7" -> 55
      [] c = "8" -> 56 [] c = "9" -> 57
      [] c = "A" -> 65 [] c = "B" -> 66 [] c = "N" -> 78
      [] c = "a" -> 97 [] c = "b" -> 98 [] c = "e" -> 101
      [] c = "n" -> 110 [] c = "o" -> 111 [] c = "x" -> 120

RECURSIVE StrLess(_, _)
\* s < t for Python str: lexicographic by code point.
StrLess(s, t) ==
    IF t = <<>> THEN FALSE
    ELSE IF s = <<>> THEN TRUE
    ELSE IF Ord(Head(s)) # Ord(Head(t)) THEN Ord(Head(s)) < Ord(Head(t))
    ELSE StrLess(Tail(s), Tail(t))

\* Whether Python can order two scalars (a TypeError otherwise).
Orderable(a, b) == a.k = b.k /\ a.k \in {"num", "text", "date"}

\* a < b for two orderable scalars.
Less(a, b) == IF a.k \in {"num", "date"} THEN a.n < b.n ELSE StrLess(a.s, b.s)

\* str.startswith / str.endswith: literal, case-sensitive.
StartsWith(s, p) == Len(p) <= Len(s) /\ SubSeq(s, 1, Len(p)) = p
EndsWith(s, p)   == Len(p) <= Len(s) /\ SubSeq(s, Len(s) - Len(p) + 1, Len(s)) = p

\* re.search(pat, s, re.IGNORECASE) for patterns over the model's characters:
\* "." matches any character, every other character matches itself.
RegexSearchNoCase(pat, s) ==
    \E start \in 0..(Len(s) - Len(pat)) :
        \A i \in 1..Len(pat) :
            \/ pat[i] = "."
            \/ Lower(pat[i]) = Lower(s[start + i])

-----------------------------------------------------------------------------
(* DataFrame model: columns, index labels, and the cell of each label.     *)

DataFrame(columns, index, rows) ==
    [columns |-> columns, index |-> index, rows |-> rows]

ColumnSet(df) == {df.columns[i] : i \in 1..Len(df.columns)}
IndexSet(df)  == {df.index[i] : i \in 1..Len(df.index)}

\* Variant of df[mask] that leaves out the first of the selected rows.
Select_skips_first(df, mask) ==
    LET kept == SelectSeq(df.index, LAMBDA r : mask[r])
    IN  [df EXCEPT !.index = IF kept = <<>> THEN kept ELSE Tail(kept)]

\* df[mask]: the rows whose mask entry is true, in order.
Select(df, mask) ==
    [df EXCEPT !.index = SelectSeq(df.index, LAMBDA r : mask[r])]

AllMask(df, b) == [r \in IndexSet(df) |-> b]

\* Variant of EqCell in which a null cell equals everything.
EqCell_null_matches(c, v) == IsNull(c) \/ c = v

\* col == value, element by element: a null cell or a null target is False,
\* values of different Python types are unequal.
EqCell(c, v) == ~IsNull(c) /\ ~IsNull(v) /\ c = v

\* Variant of IsInCell that asks the cell to equal every member.
IsInCell_every_member(c, items) ==
    \A i \in 1..Len(items) :
        IF IsNull(c) THEN IsNull(items[i]) ELSE c = items[i]

\* col.isin(values): membership; a null cell matches a null member.
IsInCell(c, items) ==
    \E i \in 1..Len(items) :
        IF IsNull(c) THEN IsNull(items[i]) ELSE c = items[i]

\* col > v / col < v raise TypeError when a non-null cell and a non-null
\* target cannot be ordered; null cells and null targets compare False.
OrderRaises(df, col, v) ==
    /\ ~IsNull(v)
    /\ \E r \in IndexSet(df) :
          ~IsNull(df.rows[r][col]) /\ ~Orderable(df.rows[r][col], v)

\* Variant of GtCell that also keeps a cell equal to the value.
GtCell_or_equal(c, v) == ~IsNull(c) /\ ~IsNull(v) /\ ~Less(c, v)

\* Variant of GeCell with the comparison turned round.
GeCell_reversed(c, v) == ~IsNull(c) /\ ~IsNull(v) /\ ~Less(v, c)

GtCell(c, v) == ~IsNull(c) /\ ~IsNull(v) /\ Less(v, c)
LtCell(c, v) == ~IsNull(c) /\ ~IsNull(v) /\ Less(c, v)
GeCell(c, v) == ~IsNull(c) /\ ~IsNull(v) /\ ~Less(c, v)
LeCell(c, v) == ~IsNull(c) /\ ~IsNull(v) /\ ~Less(v, c)

Raised(df) == [raised |-> TRUE,  df |-> df]
Return(df) == [raised |-> FALSE, df |-> df]

-----------------------------------------------------------------------------
(* src/lib/filter_engine.py                                                *)

TEXT_OPERATORS    == {"equals", "contains", "starts_with", "ends_with"}
NUMERIC_OPERATORS == {"equals", "greater_than", "less_than", "between"}
DATE_OPERATORS    == {"equals", "before", "after", "between"}

\* Variant of validate_filter_operator that accepts every operator.
validate_filter_operator_accepts_all(operator, data_type) == TRUE

\* Variant of validate_filter_operator that gives a date column the
\* numeric operators.
validate_filter_operator_date_as_numeric(operator, data_type) ==
    CASE data_type = "text"    -> operator \in TEXT_OPERATORS
      [] data_type = "numeric" -> operator \in NUMERIC_OPERATORS
      [] data_type = "date"    -> operator \in NUMERIC_OPERATORS
      [] OTHER                 -> FALSE

validate_filter_operator(operator, data_type) ==
    CASE data_type = "text"    -> operator \in TEXT_OPERATORS
      [] data_type = "numeric" -> operator \in NUMERIC_OPERATORS
      [] data_type = "date"    -> operator \in DATE_OPERATORS
      [] OTHER                 -> FALSE

\* The single Python object a scalar-valued operator receives.  The callers
\* of the engine pass lists only with equals and tuples only with between.
ScalarOf(value) == CASE value.shape = "scalar" -> value.items[1]

\* The mask of one operator over a column present in df, or a raise.
\* Result: [raised, mask].
OperatorMask(df, column_name, operator, value) ==
    LET cell(r) == df.rows[r][column_name]
        ok(m)   == [raised |-> FALSE, mask |-> m]
        raise   == [raised |-> TRUE,  mask |-> AllMask(df, FALSE)]
        cmp(gt) == IF OrderRaises(df, column_name, ScalarOf(value)) THEN raise
                   ELSE ok([r \in IndexSet(df) |->
                              IF gt THEN GtCell(cell(r), ScalarOf(value))
                                    ELSE LtCell(cell(r), ScalarOf(value))])
    IN
    CASE operator = "equals" ->
           IF value.shape = "list"
           THEN ok([r \in IndexSet(df) |-> IsInCell(cell(r), value.items)])
           ELSE ok([r \in IndexSet(df) |-> EqCell(cell(r), ScalarOf(value))])
      [] operator = "contains" ->
           ok([r \in IndexSet(df) |->
                 RegexSearchNoCase(StrOf(ScalarOf(value)), StrOf(cell(r)))])
      [] operator = "starts_with" ->
           ok([r \in IndexSet(df) |->
                 StartsWith(StrOf(cell(r)), StrOf(ScalarOf(value)))])
      [] operator = "ends_with" ->
           ok([r \in IndexSet(df) |->
                 EndsWith(StrOf(cell(r)), StrOf(ScalarOf(value)))])
      [] operator = "greater_than" -> cmp(TRUE)
      [] operator = "less_than"    -> cmp(FALSE)
      [] operator = "between" ->
           IF value.shape = "tuple" /\ Len(value.items) = 2
           THEN LET lo == value.items[1]
                    hi == value.items[2]
                IN  IF ~Orderable(lo, hi) THEN raise        \* TypeError at lo > hi
                    ELSE IF Less(hi, lo) THEN raise         \* ValueError: min > max
                    ELSE IF OrderRaises(df, column_name, lo)
                            \/ OrderRaises(df, column_name, hi) THEN raise
                    ELSE ok([r \in IndexSet(df) |->
                               GeCell(cell(r), lo) /\ LeCell(cell(r), hi)])
           ELSE ok(AllMask(df, FALSE))
      [] operator = "before" -> cmp(FALSE)
      [] operator = "after"  -> cmp(TRUE)

KNOWN_OPERATORS ==
    {"equals", "contains", "starts_with", "ends_with", "greater_than",
     "less_than", "between", "before", "after"}

\* Mutant: a condition on an absent column selects no row.
apply_single_filter_absent_selects_none(df, column_name, operator, value, data_type) ==
    IF column_name \notin ColumnSet(df) THEN Return(Select(df, AllMask(df, FALSE)))
    ELSE IF operator \notin KNOWN_OPERATORS THEN Return(df)
    ELSE LET m == OperatorMask(df, column_name, operator, value)
         IN  IF m.raised THEN Raised(df) ELSE Return(Select(df, m.mask))

\* Mutant: an unrecognized operator raises, and the operator is inspected
\* before the column is looked up.
apply_single_filter_strict(df, column_name, operator, value, data_type) ==
    IF operator \notin KNOWN_OPERATORS THEN Raised(df)
    ELSE IF column_name \notin ColumnSet(df) THEN
         (IF operator = "between" /\ value.shape = "tuple"
             /\ (~Orderable(value.items[1], value.items[2])
                 \/ Less(value.items[2], value.items[1]))
          THEN Raised(df) ELSE Return(df))
    ELSE LET m == OperatorMask(df, column_name, operator, value)
         IN  IF m.raised THEN Raised(df) ELSE Return(Select(df, m.mask))

\* apply_single_filter: the filtered DataFrame, or a raise.
apply_single_filter(df, column_name, operator, value, data_type) ==
    IF column_name \notin ColumnSet(df) THEN Return(df)
    ELSE IF operator \notin KNOWN_OPERATORS THEN Return(df)
    ELSE LET m == OperatorMask(df, column_name, operator, value)
         IN  IF m.raised THEN Raised(df) ELSE Return(Select(df, m.mask))

\* A condition dictionary.  A missing key reads as None: NoKey.
NoKey == "<None>"

Condition(column_name, operator, value, data_type) ==
    [column_name |-> column_name, operator |-> operator, value |-> value,
     data_type |-> data_type, is_active |-> TRUE]

\* `if col and op is not None`
HasColumnAndOperator(c) ==
    c.column_name \notin {NoKey, ""} /\ c.operator # NoKey

MAX_FILTER_CONDITIONS == 10

IsOr(logic_operator) == logic_operator \in {"OR", "or", "Or", "oR"}

RECURSIVE ChainedMasks(_, _, _)
ChainedMasks(result_df, current, conds) ==
    IF conds = <<>> THEN [raised |-> FALSE, masks |-> <<>>]
    ELSE LET c == Head(conds) IN
         IF ~HasColumnAndOperator(c) THEN ChainedMasks(result_df, current, Tail(conds))
         ELSE LET f    == apply_single_filter(current, c.column_name,
                                              c.operator, c.value, c.data_type)
                  rest == ChainedMasks(result_df, f.df, Tail(conds))
              IN  IF f.raised \/ rest.raised
                  THEN [raised |-> TRUE, masks |-> <<>>]
                  ELSE [raised |-> FALSE,
                        masks  |-> <<[r \in IndexSet(result_df) |->
                                        r \in IndexSet(f.df)]>> \o rest.masks]

\* Mutant: each condition is evaluated on the rows that survived the
\* conditions before it, not on the whole table.
ConditionMasks_chained(result_df, conds) == ChainedMasks(result_df, result_df, conds)

RECURSIVE ConditionMasks(_, _)
\* The loop of apply_multiple_filters: one mask per condition that has a
\* column and an operator, each computed on the whole of result_df.
\* Result: [raised, masks].
ConditionMasks(result_df, conds) ==
    IF conds = <<>> THEN [raised |-> FALSE, masks |-> <<>>]
    ELSE LET c    == Head(conds)
             rest == ConditionMasks(result_df, Tail(conds))
         IN  IF ~HasColumnAndOperator(c) THEN rest
             ELSE LET f == apply_single_filter(result_df, c.column_name,
                                               c.operator, c.value, c.data_type)
                  IN  IF f.raised \/ rest.raised
                      THEN [raised |-> TRUE, masks |-> <<>>]
                      ELSE [raised |-> FALSE,
                            masks  |-> <<[r \in IndexSet(result_df) |->
                                            r \in IndexSet(f.df)]>> \o rest.masks]

RECURSIVE CombineMasks_swapped(_, _, _)
\* Mutant: the OR branch conjoins and the AND branch disjoins.
CombineMasks_swapped(combined, masks, or) ==
    IF masks = <<>> THEN combined
    ELSE CombineMasks_swapped([r \in DOMAIN combined |->
                                 IF or THEN combined[r] /\ Head(masks)[r]
                                       ELSE combined[r] \/ Head(masks)[r]],
                              Tail(masks), or)

RECURSIVE CombineMasks(_, _, _)
\* combined_mask = masks[0]; for mask in masks[1:]: combined | mask (or &).
CombineMasks(combined, masks, or) ==
    IF masks = <<>> THEN combined
    ELSE CombineMasks([r \in DOMAIN combined |->
                         IF or THEN combined[r] \/ Head(masks)[r]
                               ELSE combined[r] /\ Head(masks)[r]],
                      Tail(masks), or)

\* Variant of apply_multiple_filters that selects no row for an empty list.
apply_multiple_filters_empty_selects_none(df, filter_conditions, logic_operator) ==
    IF filter_conditions = <<>> THEN Return(Select(df, AllMask(df, FALSE)))
    ELSE IF Len(filter_conditions) > MAX_FILTER_CONDITIONS THEN Raised(df)
    ELSE LET m == ConditionMasks(df, filter_conditions)
         IN  IF m.raised THEN Raised(df)
             ELSE IF m.masks = <<>> THEN Return(df)
             ELSE Return(Select(df, CombineMasks(Head(m.masks), Tail(m.masks),
                                                 IsOr(logic_operator))))

\* Variant of apply_multiple_filters without the check of the list length.
apply_multiple_filters_uncapped(df, filter_conditions, logic_operator) ==
    IF filter_conditions = <<>> THEN Return(df)
    ELSE LET m == ConditionMasks(df, filter_conditions)
         IN  IF m.raised THEN Raised(df)
             ELSE IF m.masks = <<>> THEN Return(df)
             ELSE Return(Select(df, CombineMasks(Head(m.masks), Tail(m.masks),
                                                 IsOr(logic_operator))))

apply_multiple_filters(df, filter_conditions, logic_operator) ==
    IF filter_conditions = <<>> THEN Return(df)
    ELSE IF Len(filter_conditions) > MAX_FILTER_CONDITIONS THEN Raised(df)
    ELSE LET m == ConditionMasks(df, filter_conditions)
         IN  IF m.raised THEN Raised(df)
             ELSE IF m.masks = <<>> THEN Return(df)
             ELSE Return(Select(df, CombineMasks(Head(m.masks), Tail(m.masks),
                                                 IsOr(logic_operator))))

-----------------------------------------------------------------------------
(* src/lib/data_processor.py                                               *)

\* A parsed file (the output of parse_file): column names, possibly
\* repeated, and the rows as tuples of cells in column order.
RawFrame(columns, rows) == [columns |-> columns, rows |-> rows]

RECURSIVE CountBefore(_, _, _)
\* How many of the first i - 1 names equal `name`.
CountBefore(columns, i, name) ==
    IF i <= 1 THEN 0
    ELSE CountBefore(columns, i - 1, name)
         + (IF columns[i - 1] = name THEN 1 ELSE 0)

\* handle_duplicate_columns: the k-th repeat of a name becomes name_k.
handle_duplicate_columns(columns) ==
    [i \in 1..Len(columns) |->
        LET seen == CountBefore(columns, i, columns[i])
        IN  IF seen = 0 THEN columns[i]
            ELSE columns[i] \o "_" \o ToString(seen)]

\* The column has a cell of one of the kinds and no non-null cell of
\* another kind.
EveryCellOf(cells, kinds) ==
    /\ \E i \in 1..Len(cells) : cells[i].k \in kinds
    /\ \A i \in 1..Len(cells) : cells[i].k \in kinds \/ IsNull(cells[i])

\* pandas dtype of a column given its cells: int64 when every cell is an
\* int, float64 when every non-null cell is a number (missing cells are
\* then NaN), datetime64 when every non-null cell is a timestamp, object
\* otherwise.
DTypeOf(cells) ==
    IF cells # <<>> /\ \A i \in 1..Len(cells) : cells[i].k = "int" THEN "int64"
    ELSE IF EveryCellOf(cells, {"num", "int"}) THEN "float64"
    ELSE IF EveryCellOf(cells, {"date"}) THEN "datetime64"
    ELSE "object"

\* The cell as pandas stores it in a column of the given dtype.
StoreCell(dtype, c) ==
    IF IsNull(c)
    THEN (IF dtype = "float64" THEN NaNV
          ELSE IF dtype = "datetime64" THEN NaTV ELSE NoneV)
    ELSE IF dtype = "float64" /\ c.k = "int" THEN NumV(c.n)
    ELSE c

Letters == {"A", "B", "N", "a", "b", "e", "n", "o", "x"}

\* Eight digits that spell a calendar day as YYYYMMDD (days up to the 28th).
IsCompactDate(s) ==
    LET val(i) == CHOOSE d \in 0..9 : DigitChar(d) = s[i]
    IN  /\ Len(s) = 8
        /\ \A i \in 1..8 : \E d \in 0..9 : DigitChar(d) = s[i]
        /\ 10 * val(5) + val(6) \in 1..12
        /\ 10 * val(7) + val(8) \in 1..28

\* pd.to_datetime(str) succeeds.  Strings that hold a letter and spell no
\* date word do not parse, YYYYMMDD digit strings parse; other strings are
\* outside the model.
ParsesAsDate(s) ==
    CASE (\E i \in 1..Len(s) : s[i] \in Letters)
         /\ LowerStr(s) \notin {<<"n", "a", "n">>, <<"n", "o", "n", "e">>} -> FALSE
      [] IsCompactDate(s) -> TRUE

\* How many values detect_column_types samples for the date test.
DATE_SAMPLE_SIZE == 10

\* col_data.head(10): the first non-null cells of a column.
SampleValues(cells) ==
    LET nonnull == SelectSeq(cells, LAMBDA c : ~IsNull(c))
    IN  SubSeq(nonnull, 1, IF Len(nonnull) < DATE_SAMPLE_SIZE
                           THEN Len(nonnull) ELSE DATE_SAMPLE_SIZE)

\* detect_column_types for one column of a DataFrame.
DetectColumnType(cells) ==
    LET sample == SampleValues(cells)
    IN  IF sample = <<>> THEN "text"
        ELSE IF DTypeOf(cells) = "datetime64" THEN "date"
        ELSE IF DTypeOf(cells) = "object"
             THEN (IF \A i \in 1..Len(sample) : ParsesAsDate(StrOf(sample[i]))
                   THEN "date" ELSE "text")
             ELSE "numeric"

\* The cells of a column of a DataFrame, in index order.
ColumnCells(df, c) == [i \in 1..Len(df.index) |-> df.rows[df.index[i]][c]]

\* detect_column_types: the type of every column.
detect_column_types(df) ==
    [c \in ColumnSet(df) |-> DetectColumnType(ColumnCells(df, c))]

\* pd.DataFrame.from_dict(records): index 0..n-1, one column per key,
\* each column stored in its dtype.
FromRecords(columns, records) ==
    LET colcells(c) == [i \in 1..Len(records) |-> records[i][c]] IN
    DataFrame(columns, [i \in 1..Len(records) |-> i - 1],
              [r \in 0..(Len(records) - 1) |->
                  [c \in {columns[j] : j \in 1..Len(columns)} |->
                      StoreCell(DTypeOf(colcells(c)), records[r + 1][c])]])

\* Variant of convert_to_json_format without the replacement of NaN.
convert_to_json_format_keeps_nan(df) ==
    [i \in 1..Len(df.index) |->
        [c \in ColumnSet(df) |-> df.rows[df.index[i]][c]]]

\* convert_to_json_format: df.replace({np.nan: None}).to_dict('records').
convert_to_json_format(df) ==
    [i \in 1..Len(df.index) |->
        [c \in ColumnSet(df) |->
            LET cell == df.rows[df.index[i]][c]
            IN  IF IsNull(cell) THEN NoneV ELSE cell]]

EmptyTableData ==
    [loaded |-> FALSE, dataframe_json |-> <<>>, row_count |-> 0,
     column_names |-> <<>>, column_types |-> <<>>]

\* prepare_table_data: the dictionary kept in table-data-store.
prepare_table_data(raw) ==
    LET names   == handle_duplicate_columns(raw.columns)
        records == [i \in 1..Len(raw.rows) |->
                       [c \in {names[j] : j \in 1..Len(names)} |->
                           raw.rows[i][CHOOSE j \in 1..Len(names) : names[j] = c]]]
        df      == FromRecords(names, records)
    IN  [loaded         |-> TRUE,
         dataframe_json |-> convert_to_json_format(df),
         row_count      |-> Len(df.index),
         column_names   |-> names,
         column_types   |-> detect_column_types(df)]

\* The DataFrame every callback rebuilds from the store.
StoredFrame(table_data) ==
    FromRecords(table_data.column_names, table_data.dataframe_json)

\* column_types.get(col, 'text')
ColumnTypeOf(table_data, col) ==
    IF col \in DOMAIN table_data.column_types
    THEN table_data.column_types[col] ELSE "text"

\* format_row_count(total_rows, filtered_rows)
RowCountText(kind, filtered, total) ==
    [kind |-> kind, filtered |-> filtered, total |-> total]

NoRowCount == RowCountText("empty", 0, 0)

format_row_count_total(total_rows) == RowCountText("total", total_rows, total_rows)

format_row_count(total_rows, filtered_rows) ==
    IF filtered_rows # total_rows
    THEN RowCountText("filtered", filtered_rows, total_rows)
    ELSE RowCountText("total", total_rows, total_rows)

-----------------------------------------------------------------------------
(* src/app.py: helpers                                                     *)

Digits == {"0", "1", "2", "3", "4", "5", "6", "7", "8", "9"}

DigitVal(c) == CHOOSE d \in 0..9 : DigitChar(d) = c

RECURSIVE DigitsToNat(_)
DigitsToNat(s) ==
    IF s = <<>> THEN 0
    ELSE 10 * DigitsToNat(SubSeq(s, 1, Len(s) - 1)) + DigitVal(s[Len(s)])

\* float(str).  A run of digits is that number; "nan" in any letter case
\* is NaN; a string without a digit that spells no float word raises
\* ValueError (so does the empty string).  Strings that mix digits with
\* other characters are outside the model.
ParseFloat(s) ==
    CASE s # <<>> /\ (\A i \in 1..Len(s) : s[i] \in Digits) ->
            [ok |-> TRUE, v |-> NumV(DigitsToNat(s))]
      [] LowerStr(s) = <<"n", "a", "n">> -> [ok |-> TRUE, v |-> NaNV]
      [] (\A i \in 1..Len(s) : s[i] \notin Digits)
         /\ LowerStr(s) # <<"n", "a", "n">> -> [ok |-> FALSE, v |-> NoneV]

\* float(x) for any scalar: None raises TypeError.
FloatOf(a) ==
    CASE a.k = "text" -> ParseFloat(a.s)
      [] a.k = "num"  -> [ok |-> TRUE, v |-> a]
      [] a.k = "nan"  -> [ok |-> TRUE, v |-> a]
      [] a.k = "none" -> [ok |-> FALSE, v |-> a]

\* pd.to_datetime(x) for the scalars the model uses: None gives no error,
\* a string that does not parse raises.
DateOf(a) ==
    CASE a.k = "none" -> [ok |-> TRUE, v |-> a]
      [] a.k = "text" /\ ~ParsesAsDate(a.s) -> [ok |-> FALSE, v |-> a]

\* float(x) for a numeric column, pd.to_datetime(x) for a date column.
Convert(dtype, a) == IF dtype = "numeric" THEN FloatOf(a) ELSE DateOf(a)

\* The conversion of _apply_filter_set_to_df: every member converts or the
\* value is left as it was (`except Exception: pass`).
CoerceOrKeep(dtype, val) ==
    IF \A i \in 1..Len(val.items) : Convert(dtype, val.items[i]).ok
    THEN [val EXCEPT !.items =
              [i \in 1..Len(val.items) |-> Convert(dtype, val.items[i]).v]]
    ELSE val

\* `if col and op`
HasColAndOp(c) ==
    c.column_name \notin {NoKey, ""} /\ c.operator \notin {NoKey, ""}

\* _apply_filter_set_to_df
ApplyFilterSetToDf(df, current_filter_set, table_data) ==
    IF current_filter_set.conditions = <<>> THEN Return(df)
    ELSE LET typed(c) ==
                 LET dtype == IF c.data_type \notin {NoKey, ""} THEN c.data_type
                              ELSE ColumnTypeOf(table_data, c.column_name)
                 IN  [column_name |-> c.column_name, operator |-> c.operator,
                      data_type |-> dtype, is_active |-> TRUE,
                      value |-> IF dtype \in {"numeric", "date"}
                               THEN CoerceOrKeep(dtype, c.value) ELSE c.value]
             kept == SelectSeq(current_filter_set.conditions, HasColAndOp)
             filter_conditions == [i \in 1..Len(kept) |-> typed(kept[i])]
         IN  IF filter_conditions = <<>> THEN Return(df)
             ELSE apply_multiple_filters(df, filter_conditions,
                                         current_filter_set.logic_operator)

\* _select_table_columns
SelectTableColumns(all_columns, visible_columns) ==
    IF visible_columns = <<>> THEN all_columns
    ELSE SelectSeq(all_columns,
                   LAMBDA c : \E i \in 1..Len(visible_columns) : visible_columns[i] = c)

\* What table-container shows.
TableView(kind, data, columns, banner) ==
    [kind |-> kind, data |-> data, columns |-> columns, banner |-> banner]

NoDataMessage == TableView("message", <<>>, <<>>, FALSE)   \* html.Div("No data loaded ...")
BlankView     == TableView("blank", <<>>, <<>>, FALSE)     \* html.Div()

\* html.Div([table_component])
PlainTable(df, columns) == TableView("table", convert_to_json_format(df), columns, FALSE)

\* _wrap_table_with_empty_state
WrappedTable(df, columns) ==
    TableView("table", convert_to_json_format(df), columns, Len(df.index) = 0)

\* A filter set dictionary; result_count Absent when the key is missing.
Absent == 0 - 1

FilterSet(conditions, logic_operator, result_count) ==
    [conditions |-> conditions, logic_operator |-> logic_operator,
     result_count |-> result_count]

InitialFilterSet == FilterSet(<<>>, "AND", Absent)

\* What the browser stores of a returned filter set: JSON has no tuples,
\* a (min, max) pair is kept as a 2-element list.
ToJson(filter_set) ==
    [filter_set EXCEPT !.conditions =
        [i \in 1..Len(filter_set.conditions) |->
            LET c == filter_set.conditions[i]
            IN  IF c.value.shape = "tuple"
                THEN [c EXCEPT !.value = ListV(c.value.items)] ELSE c]]

\* The entry form: column, operator, value, multi-select value, second value.
\* A control without a value holds None (NoKey for the dropdowns, NoneV for
\* the inputs, none = TRUE for the multi-select).
Form(column_name, operator, filter_value, filter_value_multi, filter_value2) ==
    [column_name |-> column_name, operator |-> operator,
     filter_value |-> filter_value, filter_value_multi |-> filter_value_multi,
     filter_value2 |-> filter_value2]

MultiNone     == [none |-> TRUE,  items |-> <<>>]
Multi(items)  == [none |-> FALSE, items |-> items]

FreshForm   == Form(NoKey, NoKey, NoneV, MultiNone, NoneV)
\* After add or clear: column and operator None, both inputs '', and the
\* multi-select reset to None by update_value_input_type.
ClearedForm == Form(NoKey, NoKey, TextV(<<>>), MultiNone, TextV(<<>>))

\* "Decide which filter value to use"
ActualValue(f) ==
    IF f.operator = "equals" /\ ~f.filter_value_multi.none
    THEN ListV(f.filter_value_multi.items)
    ELSE IF f.operator = "between" THEN TupleV(f.filter_value, f.filter_value2)
    ELSE Scalar(f.filter_value)

\* "Validate inputs"
MissingInput(f) ==
    \/ f.column_name \in {NoKey, ""}
    \/ f.operator \in {NoKey, ""}
    \/ ActualValue(f) = Scalar(NoneV)
    \/ (ActualValue(f).shape = "list" /\ ActualValue(f).items = <<>>)

\* "Convert filter value based on data type": whether the conversion raises
\* ValueError or TypeError.  Members that are None are skipped (list) or
\* replaced by a default (tuple); the converted value itself is not used.
ConversionFails(dtype, actual_value) ==
    \E i \in 1..Len(actual_value.items) :
        /\ actual_value.items[i].k # "none"
        /\ ~Convert(dtype, actual_value.items[i]).ok

-----------------------------------------------------------------------------
(* src/app.py: callbacks as functions of their arguments                   *)

\* conditions.pop(index) for a 0-based index in range: the list without it.
RemoveAtIndex(conditions, index) ==
    SubSeq(conditions, 1, index) \o SubSeq(conditions, index + 2, Len(conditions))

\* Variant of ReplaceOrAppend that keeps an earlier condition on the column.
ReplaceOrAppend_keeps_old(conditions, filter_condition) ==
    Append(conditions, filter_condition)

\* conditions = [c for c in conditions if c.column_name != column_name]
\* conditions.append(filter_condition)
ReplaceOrAppend(conditions, filter_condition) ==
    Append(SelectSeq(conditions,
                     LAMBDA c : c.column_name # filter_condition.column_name),
           filter_condition)

\* The outputs of apply_column_filter and of remove_filter_condition.
Outputs(filter_set, table_container, row_count_display, filter_status, conditions_list) ==
    [filter_set |-> filter_set, table_container |-> table_container,
     row_count_display |-> row_count_display, filter_status |-> filter_status,
     conditions_list |-> conditions_list]

\* apply_column_filter
apply_column_filter(f, logic_operator, table_data, current_filter_set, visible_columns) ==
    IF ~table_data.loaded
    THEN Outputs(current_filter_set, NoDataMessage, NoRowCount,
                 "Error: No data loaded.", <<>>)
    ELSE IF MissingInput(f)
    THEN Outputs(current_filter_set, BlankView, NoRowCount,
                 "Please select column, operator, and enter/select a value.",
                 current_filter_set.conditions)
    ELSE
    LET actual_value == ActualValue(f)
        df           == StoredFrame(table_data)
        data_type    == ColumnTypeOf(table_data, f.column_name)
    IN
    IF ~validate_filter_operator(f.operator, data_type)
    THEN Outputs(current_filter_set, BlankView, NoRowCount,
                 "Invalid operator for column.", current_filter_set.conditions)
    ELSE IF data_type = "numeric" /\ ConversionFails("numeric", actual_value)
    THEN Outputs(current_filter_set, BlankView, NoRowCount,
                 "Invalid numeric value.", current_filter_set.conditions)
    ELSE IF data_type = "date" /\ ConversionFails("date", actual_value)
    THEN Outputs(current_filter_set, BlankView, NoRowCount,
                 "Invalid date format.", current_filter_set.conditions)
    ELSE
    LET logic_operator_effective ==
            IF logic_operator \in {"AND", "OR"} THEN logic_operator
            ELSE IF current_filter_set.logic_operator \in {"AND", "OR"}
                 THEN current_filter_set.logic_operator ELSE "AND"
        filter_condition ==
            Condition(f.column_name, f.operator, actual_value, data_type)
        conditions == ReplaceOrAppend(current_filter_set.conditions, filter_condition)
        \* current_filter_set after the two in-place assignments
        mutated == [current_filter_set EXCEPT
                        !.logic_operator = logic_operator_effective,
                        !.conditions = conditions]
        filtered == ApplyFilterSetToDf(df, mutated, table_data)
    IN
    IF filtered.raised
    THEN Outputs(mutated, BlankView, NoRowCount, "Error applying filter.",
                 mutated.conditions)
    ELSE
    LET filtered_rows == Len(filtered.df.index) IN
    Outputs(FilterSet(conditions, logic_operator_effective, filtered_rows),
            WrappedTable(filtered.df,
                         SelectTableColumns(table_data.column_names, visible_columns)),
            format_row_count(table_data.row_count, filtered_rows),
            IF filtered_rows = 0 THEN "No results match the current filter(s)."
            ELSE IF Len(conditions) > 1 THEN "Applied filters."
            ELSE "Filter applied.",
            conditions)

\* Variant of MAX_CONDITIONS that admits one condition more.
MAX_CONDITIONS_plus_one == MAX_FILTER_CONDITIONS + 1

MAX_CONDITIONS == 10

\* Variant of AddOutputs that counts the conditions into result_count.
AddOutputs_counting(filter_set, conditions_list, form_after, filter_status) ==
    [filter_set |-> [filter_set EXCEPT !.result_count = Len(conditions_list)],
     conditions_list |-> conditions_list,
     form |-> form_after, filter_status |-> filter_status]

\* The outputs of add_filter_condition: the filter set, the conditions
\* list, the entry form and the status.
AddOutputs(filter_set, conditions_list, form_after, filter_status) ==
    [filter_set |-> filter_set, conditions_list |-> conditions_list,
     form |-> form_after, filter_status |-> filter_status]

\* add_filter_condition
add_filter_condition(f, table_data, current_filter_set) ==
    IF ~table_data.loaded
    THEN AddOutputs(current_filter_set, current_filter_set.conditions, f,
                    "Error: No data loaded.")
    ELSE IF MissingInput(f)
    THEN AddOutputs(current_filter_set, current_filter_set.conditions, f,
                    "Please select column, operator, and enter/select a value before adding.")
    ELSE
    LET data_type == ColumnTypeOf(table_data, f.column_name) IN
    IF ~validate_filter_operator(f.operator, data_type)
    THEN AddOutputs(current_filter_set, current_filter_set.conditions, f,
                    "Invalid operator for column.")
    ELSE
    LET filter_condition ==
            Condition(f.column_name, f.operator, ActualValue(f), data_type)
        conditions == ReplaceOrAppend(current_filter_set.conditions, filter_condition)
    IN
    IF Len(conditions) > MAX_CONDITIONS
    THEN AddOutputs(current_filter_set,
                    SubSeq(conditions, 1, Len(conditions) - 1),   \* conditions.pop()
                    f, "Maximum filter conditions allowed.")
    ELSE AddOutputs(FilterSet(conditions, current_filter_set.logic_operator, 0),
                    conditions, ClearedForm, "Filter condition added.")

\* Variant of clear_filter that always answers as after an exception.
clear_filter_blank_table(table_data, visible_columns) ==
    Outputs(FilterSet(<<>>, "AND", Absent), BlankView, NoRowCount,
            "Error clearing filter.", <<>>)

\* clear_filter (the filter set and the view; the form is cleared as well)
clear_filter(table_data, visible_columns) ==
    IF ~table_data.loaded
    THEN Outputs(FilterSet(<<>>, "AND", Absent), NoDataMessage, NoRowCount, "", <<>>)
    ELSE Outputs(FilterSet(<<>>, "AND", Absent),
                 PlainTable(StoredFrame(table_data),
                            SelectTableColumns(table_data.column_names, visible_columns)),
                 format_row_count_total(table_data.row_count),
                 "All filters cleared.", <<>>)

\* update_filter_logic
update_filter_logic(logic_operator, current_filter_set) ==
    [filter_set |->
        [current_filter_set EXCEPT !.logic_operator =
            IF logic_operator \notin {NoKey, ""} THEN logic_operator ELSE @],
     conditions_list |-> current_filter_set.conditions]

\* Variant of the no-update return that blanks the table and the row
\* count, as the error returns of apply_column_filter do.
NoUpdate_blank_table(cur, filter_status) ==
    Outputs(cur.filter_set, BlankView, NoRowCount, filter_status, cur.conditions_list)

\* dash.no_update for every output but the status.
NoUpdate(cur, filter_status) ==
    Outputs(cur.filter_set, cur.table_container, cur.row_count_display,
            filter_status, cur.conditions_list)

\* remove_filter_condition for a click on the button with index
\* index_to_remove; `cur` holds the present values of the outputs.
remove_filter_condition(index_to_remove, current_filter_set, table_data, visible_columns, cur) ==
    LET conditions == current_filter_set.conditions IN
    IF ~(0 <= index_to_remove /\ index_to_remove < Len(conditions))
    THEN NoUpdate(cur, "Invalid filter index.")
    ELSE
    LET remaining  == RemoveAtIndex(conditions, index_to_remove)
        filter_set == FilterSet(remaining, current_filter_set.logic_operator, 0)
    IN
    IF remaining = <<>>
    THEN IF table_data.loaded
         THEN Outputs(filter_set,
                      PlainTable(StoredFrame(table_data),
                                 SelectTableColumns(table_data.column_names,
                                                    visible_columns)),
                      format_row_count_total(table_data.row_count),
                      "All filters removed. Showing all data.", remaining)
         ELSE Outputs(filter_set, cur.table_container, cur.row_count_display,
                      "Filter condition removed.", remaining)
    ELSE
    LET filtered == IF table_data.loaded
                    THEN ApplyFilterSetToDf(StoredFrame(table_data), filter_set,
                                            table_data)
                    ELSE Raised(StoredFrame(table_data))   \* KeyError: 'dataframe_json'
        filtered_rows == Len(filtered.df.index)
    IN
    IF filtered.raised
    THEN Outputs(filter_set, cur.table_container, cur.row_count_display,
                 "Error reapplying filters.", remaining)
    ELSE Outputs([filter_set EXCEPT !.result_count = filtered_rows],
                 WrappedTable(filtered.df,
                              SelectTableColumns(table_data.column_names,
                                                 visible_columns)),
                 format_row_count(table_data.row_count, filtered_rows),
                 IF filtered_rows = 0 THEN "No results match the current filter(s)."
                 ELSE "Filter condition removed.",
                 remaining)

\* remove_filter_condition from its first line: fired without a click
\* (n_clicks_list holds no count) it updates nothing, the status included.
remove_filter_condition_fired(clicked, index_to_remove, current_filter_set, table_data, visible_columns, cur) ==
    IF ~clicked THEN NoUpdate(cur, cur.filter_status)
    ELSE remove_filter_condition(index_to_remove, current_filter_set, table_data,
                                 visible_columns, cur)

\* An uploaded file: it is rejected (validation or parsing fails), or it
\* parses to the frame `raw`.
UploadedFile(ok, raw) == [ok |-> ok, raw |-> raw]

ErrorRowCount == RowCountText("error", 0, 0)     \* f'Error: {error_msg}'

\* upload_file for an uploaded file.
\* Variant of upload_file that stores the snapshot with a row count of 0.
upload_file_no_row_count(file) ==
    IF ~file.ok
    THEN [table_data |-> EmptyTableData, table_container |-> BlankView,
          row_count_display |-> ErrorRowCount, filter_ui |-> FALSE,
          visible_columns |-> <<>>]
    ELSE LET table_data == [prepare_table_data(file.raw) EXCEPT !.row_count = 0] IN
         [table_data |-> table_data,
          table_container |->
              TableView("table", table_data.dataframe_json,
                        SelectTableColumns(table_data.column_names,
                                           table_data.column_names), FALSE),
          row_count_display |-> format_row_count_total(table_data.row_count),
          filter_ui |-> TRUE,
          visible_columns |-> table_data.column_names]

upload_file(file) ==
    IF ~file.ok
    THEN [table_data |-> EmptyTableData, table_container |-> BlankView,
          row_count_display |-> ErrorRowCount, filter_ui |-> FALSE,
          visible_columns |-> <<>>]
    ELSE LET table_data == prepare_table_data(file.raw) IN
         [table_data |-> table_data,
          table_container |->
              TableView("table", table_data.dataframe_json,
                        SelectTableColumns(table_data.column_names,
                                           table_data.column_names), FALSE),
          row_count_display |-> format_row_count_total(table_data.row_count),
          filter_ui |-> TRUE,
          visible_columns |-> table_data.column_names]

\* What update_visible_columns returns once the filter set is evaluated.
\* An exception of the evaluation is not caught: the callback fails and no
\* output is updated.
VisibleOutputs(filtered, all_columns, visible_columns_effective) ==
    IF filtered.raised
    THEN [updated |-> FALSE, visible_columns |-> <<>>, table_container |-> BlankView]
    ELSE [updated |-> TRUE, visible_columns |-> visible_columns_effective,
          table_container |->
              WrappedTable(filtered.df,
                           SelectTableColumns(all_columns, visible_columns_effective))]

\* update_visible_columns
update_visible_columns(visible_columns, table_data, current_filter_set) ==
    IF ~table_data.loaded
    THEN [updated |-> FALSE, visible_columns |-> <<>>, table_container |-> BlankView]
    ELSE VisibleOutputs(
             ApplyFilterSetToDf(StoredFrame(table_data), current_filter_set, table_data),
             table_data.column_names,
             IF visible_columns = <<>> THEN table_data.column_names
             ELSE SelectSeq(table_data.column_names,
                      LAMBDA c : \E i \in 1..Len(visible_columns) : visible_columns[i] = c))

\* What dcc.Download holds: nothing, or the frame handed to send_data_frame.
Download(sent, df) == [sent |-> sent, df |-> df]

NoDownload == Download(FALSE, DataFrame(<<>>, <<>>, <<>>))

\* What export_filtered_csv hands to the download once the filter set is
\* evaluated.  An exception of the evaluation is not caught: the callback
\* fails and nothing is downloaded.
ExportOutputs(filtered, visible_columns, keep_cols) ==
    IF filtered.raised THEN NoDownload
    ELSE IF visible_columns # <<>> /\ keep_cols # <<>>
    THEN Download(TRUE, [filtered.df EXCEPT !.columns = keep_cols])
    ELSE Download(TRUE, filtered.df)

\* export_filtered_csv, for a click (n_clicks > 0)
export_filtered_csv(table_data, current_filter_set, visible_columns) ==
    IF ~table_data.loaded THEN NoDownload
    ELSE ExportOutputs(
             ApplyFilterSetToDf(StoredFrame(table_data), current_filter_set, table_data),
             visible_columns,
             SelectSeq(table_data.column_names,
                 LAMBDA c : \E i \in 1..Len(visible_columns) : visible_columns[i] = c))

\* upload_file without a file: the response of the initial call.
upload_file_empty ==
    [table_data |-> EmptyTableData, table_container |-> NoDataMessage,
     row_count_display |-> NoRowCount, filter_ui |-> FALSE,
     visible_columns |-> <<>>]

-----------------------------------------------------------------------------
(* The page after load: the layout's stores and the initial upload_file    *)
(* call.                                                                   *)

\* A callback run: its name, the form it read, the remove button's index and
\* the columns of the conditions stored when it started.
Call(name, f, index, columns_before) ==
    [name |-> name, f |-> f, index |-> index, columns_before |-> columns_before]

InitApp ==
    /\ table_data_store = upload_file_empty.table_data
    /\ filter_set_store = InitialFilterSet
    /\ visible_columns_store = upload_file_empty.visible_columns
    /\ table_container_view = upload_file_empty.table_container
    /\ row_count_view = upload_file_empty.row_count_display
    /\ filter_status_view = ""
    /\ conditions_list_view = <<>>
    /\ filter_form = FreshForm
    /\ filter_logic_value = "AND"
    /\ filter_ui_shown = upload_file_empty.filter_ui
    /\ last_call = Call("load", FreshForm, Absent, <<>>)
    /\ download_csv = NoDownload

-----------------------------------------------------------------------------
(* Engine runs: the engine functions called directly, as the unit tests    *)
(* call them, on a table and on condition lists drawn from bounded sets.   *)

MaxEngineRows  == 4     \* rows of the engine table
MaxEngineConds == 2     \* longest condition list drawn

\* Row r of the engine table; the pattern repeats every four rows.
EngineRow(r) ==
    CASE r % 4 = 0 -> [Name |-> TextV(<<"A", "b">>), Age |-> NumV(5)]
      [] r % 4 = 1 -> [Name |-> TextV(<<"b", "A">>), Age |-> NumV(10)]
      [] r % 4 = 2 -> [Name |-> NoneV,               Age |-> NaNV]
      [] r % 4 = 3 -> [Name |-> TextV(<<"a">>),      Age |-> NumV(7)]

EngineTable(n) ==
    DataFrame(<<"Name", "Age">>, [i \in 1..n |-> i - 1],
              [r \in 0..(n - 1) |-> EngineRow(r)])

EngineTables == {EngineTable(0), EngineTable(MaxEngineRows)}

Str1(a)    == Scalar(TextV(<<a>>))
Str2(a, b) == Scalar(TextV(<<a, b>>))

EngineConditions ==
    { Condition("Name", "equals",       Str2("A", "b"),              "text"),
      Condition("Name", "contains",     Str1("a"),                   "text"),
      Condition("Name", "contains",     Str2(".", "b"),              "text"),
      Condition("Name", "starts_with",  Str1("a"),                   "text"),
      Condition("Name", "ends_with",    Str1("a"),                   "text"),
      Condition("Name", "matches",      Str1("a"),                   "text"),
      Condition("Age",  "greater_than", Scalar(NumV(5)),             "numeric"),
      Condition("Age",  "less_than",    Str1("5"),                   "numeric"),
      Condition("Age",  "equals",       ListV(<<NumV(5), NumV(7)>>), "numeric"),
      Condition("Age",  "between",      TupleV(NumV(5), NumV(10)),   "numeric"),
      Condition("Age",  "between",      TupleV(NumV(10), NumV(5)),   "numeric"),
      Condition("Age",  "between",      ListV(<<NumV(5), NumV(10)>>), "numeric"),
      Condition("Ghost", "equals",      Str2("A", "b"),              "text"),
      Condition("Ghost", "between",     TupleV(NumV(10), NumV(5)),   "numeric") }

SeqsUpTo(S, n) == UNION {[1..k -> S] : k \in 0..n}

EngineConditionLists == SeqsUpTo(EngineConditions, MaxEngineConds)

\* A data_processor call: which one, and what it returned.
Processed(op, columns, records, again) ==
    [op |-> op, columns |-> columns, records |-> records, again |-> again]

NotProcessed == Processed("none", <<>>, <<>>, <<>>)

\* No processor run is going on.
ProcIdle ==
    /\ proc_raw = RawFrame(<<>>, <<>>)
    /\ proc_out = NotProcessed

NotCalled(df) == [called |-> FALSE, logic |-> "AND", index |-> 0, res |-> Return(df)]

\* A validate_filter_operator call: its arguments and what it returned.
Validation(called, operator, data_type, res) ==
    [called |-> called, operator |-> operator, data_type |-> data_type, res |-> res]

NotValidated == Validation(FALSE, NoKey, NoKey, FALSE)

InitEngine ==
    /\ InitApp
    /\ eng_df \in EngineTables
    /\ eng_conds \in EngineConditionLists
    /\ eng_out = NotCalled(eng_df)
    /\ eng_single = NotCalled(eng_df)
    /\ eng_valid = NotValidated
    /\ ProcIdle

\* A caller evaluates the whole list under one logic operator.
engine_apply_multiple ==
    \E logic \in {"AND", "OR"} :
        /\ eng_out' = [called |-> TRUE, logic |-> logic, index |-> 0,
                       res |-> apply_multiple_filters(eng_df, eng_conds, logic)]
        /\ UNCHANGED <<eng_df, eng_conds, eng_single, eng_valid,
                       proc_raw, proc_out, app_vars>>

\* A caller evaluates one condition of the list on its own.
engine_apply_single ==
    \E i \in 1..Len(eng_conds) :
        LET c == eng_conds[i] IN
        /\ eng_single' = [called |-> TRUE, logic |-> "AND", index |-> i,
                          res |-> apply_single_filter(eng_df, c.column_name,
                                       c.operator, c.value, c.data_type)]
        /\ UNCHANGED <<eng_df, eng_conds, eng_out, eng_valid,
                       proc_raw, proc_out, app_vars>>

NextEngine == engine_apply_multiple \/ engine_apply_single

SpecEngine == InitEngine /\ [][NextEngine]_vars

-----------------------------------------------------------------------------
(* Single-condition runs: one condition at a time on the reference table   *)
(* of the unit tests and on a table with missing cells.  Amounts are       *)
(* written in hundredths (1000.5 is 100050), dates as yyyymmdd.            *)

Alice   == TextV(<<"A", "l", "i", "c", "e">>)
Bob     == TextV(<<"B", "o", "b">>)
Charlie == TextV(<<"C", "h", "a", "r", "l", "i", "e">>)
David   == TextV(<<"D", "a", "v", "i", "d">>)
Eve     == TextV(<<"E", "v", "e">>)

ReferenceRow(name, amount, date) == [Name |-> name, Amount |-> amount, Date |-> date]

\* setUp: sample_df (columns Name, Amount, Date).
ReferenceTable ==
    DataFrame(<<"Name", "Amount", "Date">>, <<0, 1, 2, 3, 4>>,
        [r \in 0..4 |->
            CASE r = 0 -> ReferenceRow(Alice,   NumV(100050), DateV(20240101))
              [] r = 1 -> ReferenceRow(Bob,     NumV(200000), DateV(20240201))
              [] r = 2 -> ReferenceRow(Charlie, NumV(150075), DateV(20240301))
              [] r = 3 -> ReferenceRow(David,   NumV(300000), DateV(20240401))
              [] r = 4 -> ReferenceRow(Eve,     NumV(250050), DateV(20240501))])

\* test_null_value_handling: df_with_nulls, with a Date column added.
NullsTable ==
    DataFrame(<<"Name", "Amount", "Date">>, <<0, 1, 2, 3>>,
        [r \in 0..3 |->
            CASE r = 0 -> ReferenceRow(Alice, NumV(100050), DateV(20240101))
              [] r = 1 -> ReferenceRow(Bob,   NaNV,         DateV(20240201))
              [] r = 2 -> ReferenceRow(NoneV, NumV(150075), DateV(20240301))
              [] r = 3 -> ReferenceRow(David, NumV(300000), NaTV)])

SingleTables == {ReferenceTable, NullsTable}

Word(chars) == Scalar(TextV(chars))

SingleConditions ==
    { Condition("Name", "equals",      Scalar(Alice),                 "text"),
      Condition("Name", "equals",      ListV(<<Alice>>),              "text"),
      Condition("Name", "equals",      ListV(<<Alice, Bob>>),         "text"),
      Condition("Name", "equals",      ListV(<<>>),                   "text"),
      Condition("Name", "equals",      Scalar(NoneV),                 "text"),
      Condition("Name", "equals",      ListV(<<NoneV>>),              "text"),
      Condition("Name", "contains",    Word(<<"n">>),                 "text"),
      Condition("Name", "contains",    Word(<<"N", "o", "n", "e">>),  "text"),
      Condition("Name", "contains",    Word(<<"n", "a", "n">>),       "text"),
      Condition("Name", "contains",    Word(<<"l", "i">>),            "text"),
      Condition("Name", "starts_with", Word(<<"N", "o", "n", "e">>),  "text"),
      Condition("Name", "starts_with", Word(<<"A">>),                 "text"),
      Condition("Name", "ends_with",   Word(<<"e">>),                 "text"),
      Condition("Name", "ends_with",   Word(<<"n", "a", "n">>),       "text"),
      Condition("Name", "contains",    Word(<<"l", "i">>),            "numeric"),
      Condition("Amount", "equals",       Scalar(NumV(200000)),                    "numeric"),
      Condition("Amount", "equals",       ListV(<<NumV(150075)>>),                 "numeric"),
      Condition("Amount", "equals",       ListV(<<NumV(200000), NumV(300000)>>),   "numeric"),
      Condition("Amount", "equals",       Scalar(NaNV),                            "numeric"),
      Condition("Amount", "equals",       ListV(<<NaNV>>),                         "numeric"),
      Condition("Amount", "greater_than", Scalar(NumV(200000)),                    "numeric"),
      Condition("Amount", "less_than",    Scalar(NumV(200000)),                    "numeric"),
      Condition("Amount", "between",      TupleV(NumV(150000), NumV(250000)),      "numeric"),
      Condition("Amount", "between",      TupleV(NumV(150075), NumV(250050)),      "numeric"),
      Condition("Amount", "between",      TupleV(NumV(200000), NumV(200000)),      "numeric"),
      Condition("Amount", "greater_than", Scalar(NumV(200000)),                    "text"),
      Condition("Date", "equals",  Scalar(DateV(20240201)),                        "date"),
      Condition("Date", "equals",  ListV(<<DateV(20240101), DateV(20240201)>>),    "date"),
      Condition("Date", "before",  Scalar(DateV(20240301)),                        "date"),
      Condition("Date", "after",   Scalar(DateV(20240301)),                        "date"),
      Condition("Date", "between", TupleV(DateV(20240201), DateV(20240401)),       "date") }

InitSingle ==
    /\ InitApp
    /\ eng_df \in SingleTables
    /\ eng_conds \in {<<c>> : c \in SingleConditions}
    /\ eng_out = NotCalled(eng_df)
    /\ eng_single = NotCalled(eng_df)
    /\ eng_valid = NotValidated
    /\ ProcIdle

SpecSingle == InitSingle /\ [][NextEngine]_vars

-----------------------------------------------------------------------------
(* Long-list runs: apply_multiple_filters on condition lists of up to two  *)
(* entries more than the limit.                                            *)

MaxLongConds == MAX_FILTER_CONDITIONS + 2

\* An ordinary text condition, an ordinary numeric one, one on an absent
\* column, and one that raises (between with min > max).
LongConditions ==
    { Condition("Name",  "contains",     Str1("a"),                 "text"),
      Condition("Age",   "greater_than", Scalar(NumV(5)),           "numeric"),
      Condition("Ghost", "equals",       Str2("A", "b"),            "text"),
      Condition("Age",   "between",      TupleV(NumV(10), NumV(5)), "numeric") }

\* n entries: c everywhere except d at position pos.
LongList(n, c, d, pos) == [i \in 1..n |-> IF i = pos THEN d ELSE c]

LongConditionLists ==
    UNION { { LongList(n, c, d, pos) :
                c \in LongConditions, d \in LongConditions, pos \in {1, n} } :
            n \in 0..MaxLongConds }

InitLong ==
    /\ InitApp
    /\ eng_df \in EngineTables
    /\ eng_conds \in LongConditionLists
    /\ eng_out = NotCalled(eng_df)
    /\ eng_single = NotCalled(eng_df)
    /\ eng_valid = NotValidated
    /\ ProcIdle

SpecLong == InitLong /\ [][NextEngine]_vars

-----------------------------------------------------------------------------
(* Processor runs: handle_duplicate_columns and the serialisation of a     *)
(* parsed frame, on frames drawn from the sets below.                      *)

MaxProcCols == 3

ProcNames == {"a", "a_1", "b"}

\* Cell of row r in column j for each way of filling a frame: numbers with
\* a missing value, text with a missing value, the two alternating by
\* column, and nothing but missing values.
ProcCell(fill, r, j) ==
    CASE fill = "numbers" -> IF r = 1 THEN NumV(5) ELSE NaNV
      [] fill = "text"    -> IF r = 1 THEN TextV(<<"a">>) ELSE NoneV
      [] fill = "mixed"   -> IF j % 2 = 1
                             THEN (IF r = 1 THEN NumV(5) ELSE NaNV)
                             ELSE (IF r = 1 THEN NoneV ELSE TextV(<<"b">>))
      [] fill = "nulls"   -> NaNV

ProcFills == {"numbers", "text", "mixed", "nulls"}

\* The parsed frames: every column list of up to MaxProcCols names, without
\* rows or with two rows.
ProcFrames ==
    UNION { { RawFrame(cols, <<>>) : cols \in [1..n -> ProcNames] }
            \cup { RawFrame(cols, [r \in 1..2 |-> [j \in 1..n |-> ProcCell(fill, r, j)]]) :
                       cols \in [1..n -> ProcNames], fill \in ProcFills } :
            n \in 0..MaxProcCols }

InitProc ==
    /\ InitApp
    /\ eng_df = EngineTable(0)
    /\ eng_conds = <<>>
    /\ eng_out = NotCalled(eng_df)
    /\ eng_single = NotCalled(eng_df)
    /\ eng_valid = NotValidated
    /\ proc_raw \in ProcFrames
    /\ proc_out = NotProcessed

\* A caller disambiguates the column names of the frame.
proc_handle_duplicate_columns ==
    /\ proc_out' = Processed("handle_duplicate_columns",
                             handle_duplicate_columns(proc_raw.columns), <<>>, <<>>)
    /\ UNCHANGED <<eng_df, eng_conds, eng_out, eng_single, eng_valid, proc_raw,
                   app_vars>>

\* A caller prepares the table data, rebuilds the frame from its records
\* and serialises the rebuilt frame.
proc_round_trip ==
    \E table_data \in {prepare_table_data(proc_raw)} :
        /\ proc_out' = Processed("round_trip", table_data.column_names,
                                 table_data.dataframe_json,
                                 convert_to_json_format(StoredFrame(table_data)))
        /\ UNCHANGED <<eng_df, eng_conds, eng_out, eng_single, eng_valid, proc_raw,
                       app_vars>>

NextProc == proc_handle_duplicate_columns \/ proc_round_trip

SpecProc == InitProc /\ [][NextProc]_vars

-----------------------------------------------------------------------------
(* Repeated runs: apply_single_filter called a second time, on the same    *)
(* table and on the rows the first call returned.                          *)

\* The second call: what it was given ("table" or "selected") and what it
\* returned.
SecondCall(given, index, res) ==
    [called |-> TRUE, logic |-> "AND", index |-> index, res |-> res, given |-> given]

InitTwice ==
    /\ InitApp
    /\ eng_df \in SingleTables \cup EngineTables
    /\ eng_conds \in {<<c>> : c \in SingleConditions \cup EngineConditions}
    /\ eng_out = NotCalled(eng_df)
    /\ eng_single = NotCalled(eng_df)
    /\ eng_valid = NotValidated
    /\ ProcIdle

\* A caller evaluates the condition once more on the same table.
engine_apply_single_again ==
    /\ eng_single.called
    /\ LET c == eng_conds[eng_single.index] IN
       eng_out' = SecondCall("table", eng_single.index,
                             apply_single_filter(eng_df, c.column_name,
                                 c.operator, c.value, c.data_type))
    /\ UNCHANGED <<eng_df, eng_conds, eng_single, eng_valid,
                   proc_raw, proc_out, app_vars>>

\* A caller evaluates the condition on the rows the first call returned.
engine_apply_single_to_selected ==
    /\ eng_single.called
    /\ ~eng_single.res.raised
    /\ LET c == eng_conds[eng_single.index] IN
       eng_out' = SecondCall("selected", eng_single.index,
                             apply_single_filter(eng_single.res.df, c.column_name,
                                 c.operator, c.value, c.data_type))
    /\ UNCHANGED <<eng_df, eng_conds, eng_single, eng_valid,
                   proc_raw, proc_out, app_vars>>

NextTwice ==
    \/ engine_apply_single
    \/ engine_apply_single_again
    \/ engine_apply_single_to_selected

SpecTwice == InitTwice /\ [][NextTwice]_vars

-----------------------------------------------------------------------------
(* Inference runs: detect_column_types on parsed frames of two columns     *)
(* that are longer than the sample of the date test.                       *)

\* Rows behind the first DATE_SAMPLE_SIZE rows of a frame.
InferTail == 1

InferRows == DATE_SAMPLE_SIZE + InferTail

CompactDay == <<"2", "0", "2", "4", "0", "1", "0", "1">>

\* What fills the first DATE_SAMPLE_SIZE rows of a column: whole numbers
\* that read as a day (20240101), the same as text, words, or numbers and
\* words in turn.
InferCell(kind, i) ==
    CASE kind = "ints"  -> IntV(20240101)
      [] kind = "days"  -> TextV(CompactDay)
      [] kind = "words" -> TextV(<<"a", "b">>)
      [] kind = "mixed" -> IF i % 2 = 1 THEN IntV(20240101) ELSE TextV(<<"a", "b">>)

InferKinds == {"ints", "days", "words", "mixed"}

\* What stands in the rows behind them.
InferLast == {NoneV, IntV(20240102), TextV(<<"a", "b">>)}

\* A column: its first cell possibly missing, then cells of one kind, then
\* the later value.
InferColumn(kind, gap, last) ==
    [i \in 1..InferRows |->
        IF i > DATE_SAMPLE_SIZE THEN last
        ELSE IF gap /\ i = 1 THEN NoneV
        ELSE InferCell(kind, i)]

\* The columns drawn.  A column of whole numbers with a missing value is
\* stored as floats, which print as 20240101.0; how the date parser reads
\* that is outside the model, so such columns are not drawn.
InferColumns ==
    { col \in { InferColumn(kind, gap, last) :
                    kind \in InferKinds, gap \in BOOLEAN, last \in InferLast } :
        DTypeOf(col) # "float64" }

InferFrames ==
    { RawFrame(<<"a", "b">>, [r \in 1..InferRows |-> <<ca[r], cb[r]>>]) :
          ca \in InferColumns, cb \in InferColumns }

\* A detect_column_types call: the columns and the type given to each.
Inferred(columns, column_types) ==
    [op |-> "detect_column_types", columns |-> columns, column_types |-> column_types]

InitInfer ==
    /\ InitApp
    /\ eng_df = EngineTable(0)
    /\ eng_conds = <<>>
    /\ eng_out = NotCalled(eng_df)
    /\ eng_single = NotCalled(eng_df)
    /\ eng_valid = NotValidated
    /\ proc_raw \in InferFrames
    /\ proc_out = NotProcessed

\* A caller prepares the table data of the frame, which infers the type
\* of every column.
proc_detect_column_types ==
    \E table_data \in {prepare_table_data(proc_raw)} :
        /\ proc_out' = Inferred(table_data.column_names, table_data.column_types)
        /\ UNCHANGED <<eng_df, eng_conds, eng_out, eng_single, eng_valid, proc_raw,
                       app_vars>>

NextInfer == proc_detect_column_types

SpecInfer == InitInfer /\ [][NextInfer]_vars

-----------------------------------------------------------------------------
(* Validation runs: validate_filter_operator on every pair of an operator  *)
(* and a data type drawn from the sets below.                              *)

ValidationOperators ==
    KNOWN_OPERATORS \cup {"matches", "not_equals", "Equals", "", NoKey}

ValidationTypes ==
    {"text", "numeric", "date", "boolean", "datetime", "Text", "", NoKey}

InitValidate ==
    /\ InitApp
    /\ eng_df = EngineTable(0)
    /\ eng_conds \in {<<Condition("Name", op, Str1("a"), t)>> :
                          op \in ValidationOperators, t \in ValidationTypes}
    /\ eng_out = NotCalled(eng_df)
    /\ eng_single = NotCalled(eng_df)
    /\ eng_valid = NotValidated
    /\ ProcIdle

\* A caller asks whether the condition's operator suits its data type.
engine_validate ==
    \E i \in 1..Len(eng_conds) :
        LET c == eng_conds[i] IN
        /\ eng_valid' = Validation(TRUE, c.operator, c.data_type,
                                   validate_filter_operator(c.operator, c.data_type))
        /\ UNCHANGED <<eng_df, eng_conds, eng_out, eng_single,
                       proc_raw, proc_out, app_vars>>

NextValidate == engine_validate

SpecValidate == InitValidate /\ [][NextValidate]_vars

-----------------------------------------------------------------------------
(* The page: what the user can upload and enter, and one action per        *)
(* callback.                                                               *)

NumWideCols == 11     \* columns of the wide file

PeopleFile ==
    UploadedFile(TRUE,
        RawFrame(<<"Age", "Name">>,
                 << <<NumV(5),  TextV(<<"A", "b">>)>>,
                    <<NumV(10), TextV(<<"b", "A">>)>>,
                    <<NoneV,    NoneV>> >>))

RejectedFile == UploadedFile(FALSE, RawFrame(<<>>, <<>>))

WideColumn(i) == "c" \o ToString(i)

\* A file with NumWideCols text columns c1, c2, ... and two rows.
WideFile ==
    UploadedFile(TRUE,
        RawFrame([i \in 1..NumWideCols |-> WideColumn(i)],
                 << [i \in 1..NumWideCols |-> TextV(<<"a">>)],
                    [i \in 1..NumWideCols |-> TextV(<<"b">>)] >>))

Files     == {PeopleFile, RejectedFile}
WideFiles == {WideFile}

Typed(a) == TextV(<<a>>)              \* one character typed into an input
Typed2(a, b) == TextV(<<a, b>>)

\* What the user enters for the people file.  The multi-select holds a
\* list exactly when the operator is equals (update_value_input_type);
\* its options are the column's values.
PeopleForms ==
    { Form("Age",  "greater_than", Typed("5"),       MultiNone, NoneV),
      Form("Age",  "greater_than", Typed("x"),       MultiNone, NoneV),
      Form("Age",  "between",      Typed("5"),       MultiNone, Typed2("1", "0")),
      Form("Age",  "between",      Typed2("1", "0"), MultiNone, Typed("5")),
      Form("Age",  NoKey,          NoneV,            MultiNone, NoneV),
      Form("Name", "contains",     Typed("b"),       MultiNone, NoneV),
      Form("Name", "equals",       NoneV,            Multi(<<TextV(<<"A", "b">>)>>), NoneV),
      Form("Name", "between",      Typed("a"),       MultiNone, Typed("b")),
      ClearedForm }

\* Position of a column in the file's column list (0 when absent).
ColumnPos(table_data, name) ==
    IF \E i \in 1..Len(table_data.column_names) : table_data.column_names[i] = name
    THEN CHOOSE i \in 1..Len(table_data.column_names) : table_data.column_names[i] = name
    ELSE 0

\* What the user enters for the wide file: equals "a" on the column of the
\* last stored condition, or on the first column after all stored ones.
WideForms(table_data, conditions) ==
    LET stored == {ColumnPos(table_data, conditions[i].column_name) :
                       i \in 1..Len(conditions)}
        top    == IF stored = {} THEN 0
                  ELSE CHOOSE m \in stored : \A k \in stored : k <= m
        picks  == {i \in {top, top + 1} : i \in 1..Len(table_data.column_names)}
    IN  {Form(table_data.column_names[i], "equals", NoneV,
              Multi(<<TextV(<<"a">>)>>), NoneV) : i \in picks}

\* A file with a number column and a text column.
ScoreFile ==
    UploadedFile(TRUE,
        RawFrame(<<"Score", "Label">>,
                 << <<NumV(5),  TextV(<<"a">>)>>,
                    <<NumV(10), TextV(<<"b">>)>>,
                    <<NumV(7),  NoneV>> >>))

ViewFiles == {ScoreFile}

\* What the user enters for the score file.
ScoreForms ==
    { Form("Score", "between", Typed("5"), MultiNone, Typed("7")),
      Form("Score", "greater_than", Typed("1"), MultiNone, NoneV),
      Form("Label", "equals",  NoneV, Multi(<<TextV(<<"a">>)>>), NoneV) }

FormChoices ==
    IF ColumnPos(table_data_store, "Score") > 0 THEN ScoreForms
    ELSE IF ColumnPos(table_data_store, "Age") > 0 THEN PeopleForms
    ELSE WideForms(table_data_store, filter_set_store.conditions)

\* The remove buttons the user presses: the first and the last one shown.
RemoveChoices ==
    {i \in {0, Len(conditions_list_view) - 1} : i >= 0}

ThisCall(name, f, index) ==
    Call(name, f, index,
         [i \in 1..Len(filter_set_store.conditions) |->
             filter_set_store.conditions[i].column_name])

EngineIdle ==
    /\ eng_df = EngineTable(0)
    /\ eng_conds = <<>>
    /\ eng_out = NotCalled(eng_df)
    /\ eng_single = NotCalled(eng_df)
    /\ eng_valid = NotValidated
    /\ ProcIdle

Init == InitApp /\ EngineIdle

\* The user uploads a file.  The filter UI is built anew (or removed), and
\* inserting the new filter-logic control may run update_filter_logic.
Upload(files) ==
    \E file \in files, fires \in BOOLEAN :
        \E out \in {upload_file(file)},
           upd \in {update_filter_logic("AND", filter_set_store)} :
        /\ table_data_store' = out.table_data
        /\ visible_columns_store' = out.visible_columns
        /\ table_container_view' = out.table_container
        /\ row_count_view' = out.row_count_display
        /\ filter_ui_shown' = out.filter_ui
        /\ filter_form' = FreshForm
        /\ filter_logic_value' = "AND"
        /\ filter_status_view' = ""
        /\ IF out.filter_ui /\ fires
           THEN /\ filter_set_store' = ToJson(upd.filter_set)
                /\ conditions_list_view' = upd.conditions_list
           ELSE /\ filter_set_store' = filter_set_store
                /\ conditions_list_view' = <<>>
        /\ last_call' = ThisCall("upload", FreshForm, Absent)
        /\ UNCHANGED <<download_csv, engine_vars>>

\* The user fills the form and clicks "Add Filter".
AddClick ==
    /\ filter_ui_shown
    /\ \E f \in FormChoices :
        \E out \in {add_filter_condition(f, table_data_store, filter_set_store)} :
        /\ filter_set_store' = ToJson(out.filter_set)
        /\ conditions_list_view' = out.conditions_list
        /\ filter_form' = out.form
        /\ filter_status_view' = out.filter_status
        /\ last_call' = ThisCall("add", f, Absent)
        /\ UNCHANGED <<table_data_store, visible_columns_store, table_container_view,
                       row_count_view, filter_logic_value, filter_ui_shown,
                       download_csv,
                       engine_vars>>

\* The user fills the form and clicks "Apply Filter"; the button is
\* enabled while a column is selected (update_filter_controls).
ApplyClick ==
    /\ filter_ui_shown
    /\ \E f \in FormChoices :
        /\ f.column_name # NoKey
        /\ \E out \in {apply_column_filter(f, filter_logic_value, table_data_store,
                                           filter_set_store, visible_columns_store)} :
           /\ filter_set_store' = ToJson(out.filter_set)
           /\ table_container_view' = out.table_container
           /\ row_count_view' = out.row_count_display
           /\ filter_status_view' = out.filter_status
           /\ conditions_list_view' = out.conditions_list
           /\ filter_form' = f
           /\ last_call' = ThisCall("apply", f, Absent)
           /\ UNCHANGED <<table_data_store, visible_columns_store, filter_logic_value,
                          filter_ui_shown, download_csv,
                       engine_vars>>

\* The user clicks "Clear Filter".
ClearClick ==
    /\ filter_ui_shown
    /\ \E out \in {clear_filter(table_data_store, visible_columns_store)} :
       /\ filter_set_store' = ToJson(out.filter_set)
       /\ table_container_view' = out.table_container
       /\ row_count_view' = out.row_count_display
       /\ filter_status_view' = out.filter_status
       /\ conditions_list_view' = out.conditions_list
       /\ filter_form' = ClearedForm
       /\ last_call' = ThisCall("clear", filter_form, Absent)
       /\ UNCHANGED <<table_data_store, visible_columns_store, filter_logic_value,
                      filter_ui_shown, download_csv,
                       engine_vars>>

\* The user picks the other logic operator.
LogicChange ==
    /\ filter_ui_shown
    /\ \E v \in {"AND", "OR"} \ {filter_logic_value} :
        \E out \in {update_filter_logic(v, filter_set_store)} :
        /\ filter_logic_value' = v
        /\ filter_set_store' = ToJson(out.filter_set)
        /\ conditions_list_view' = out.conditions_list
        /\ last_call' = ThisCall("logic", filter_form, Absent)
        /\ UNCHANGED <<table_data_store, visible_columns_store, table_container_view,
                       row_count_view, filter_status_view, filter_form,
                       filter_ui_shown, download_csv,
                       engine_vars>>

\* The user clicks the remove button of a listed condition.
RemoveClick ==
    /\ filter_ui_shown
    /\ \E index \in RemoveChoices :
        \E out \in {remove_filter_condition(index, filter_set_store, table_data_store,
                visible_columns_store,
                Outputs(filter_set_store, table_container_view, row_count_view,
                        filter_status_view, conditions_list_view))} :
        /\ filter_set_store' = ToJson(out.filter_set)
        /\ table_container_view' = out.table_container
        /\ row_count_view' = out.row_count_display
        /\ filter_status_view' = out.filter_status
        /\ conditions_list_view' = out.conditions_list
        /\ last_call' = ThisCall("remove", filter_form, index)
        /\ UNCHANGED <<table_data_store, visible_columns_store, filter_form,
                       filter_logic_value, filter_ui_shown, download_csv,
                       engine_vars>>

Next ==
    \/ Upload(Files)
    \/ AddClick
    \/ ApplyClick
    \/ ClearClick
    \/ LogicChange
    \/ RemoveClick

Spec == Init /\ [][Next]_vars

NextCap ==
    \/ Upload(WideFiles)
    \/ AddClick
    \/ ApplyClick
    \/ ClearClick
    \/ LogicChange
    \/ RemoveClick

SpecCap == Init /\ [][NextCap]_vars

\* The selections the user makes in the visible-columns dropdown: none,
\* the first column, all columns picked in reverse order.
VisibleChoices(table_data) ==
    LET cols == table_data.column_names
        n    == Len(cols)
    IN  {<<>>, SubSeq(cols, 1, 1), [i \in 1..n |-> cols[n + 1 - i]]}

\* The user changes the selection of visible columns.
VisibleColumnsChange ==
    /\ filter_ui_shown
    /\ \E sel \in VisibleChoices(table_data_store) :
        \E out \in {update_visible_columns(sel, table_data_store, filter_set_store)} :
        /\ out.updated
        /\ visible_columns_store' = out.visible_columns
        /\ table_container_view' = out.table_container
        /\ last_call' = ThisCall("visible", filter_form, Absent)
        /\ UNCHANGED <<table_data_store, filter_set_store, row_count_view,
                       filter_status_view, conditions_list_view, filter_form,
                       filter_logic_value, filter_ui_shown, download_csv,
                       engine_vars>>

\* The user clicks "Export".
ExportClick ==
    /\ filter_ui_shown
    /\ \E out \in {export_filtered_csv(table_data_store, filter_set_store,
                                        visible_columns_store)} :
        /\ out.sent
        /\ download_csv' = out
        /\ last_call' = ThisCall("export", filter_form, Absent)
        /\ UNCHANGED <<table_data_store, filter_set_store, visible_columns_store,
                       table_container_view, row_count_view, filter_status_view,
                       conditions_list_view, filter_form, filter_logic_value,
                       filter_ui_shown, engine_vars>>

\* The page with the column selection and the export, followed up to the
\* first export: no callback reads download-csv, so what the page does
\* after an export is what it does without it.
NextView ==
    /\ ~download_csv.sent
    /\ \/ Upload(ViewFiles)
       \/ AddClick
       \/ ApplyClick
       \/ ClearClick
       \/ LogicChange
       \/ RemoveClick
       \/ VisibleColumnsChange
       \/ ExportClick

SpecView == Init /\ [][NextView]_vars

\* The indices a remove request can carry: those of the first and the last
\* button listed, and, for a button that is no longer listed, one before
\* the first and one behind the last stored condition.
StrayChoices == RemoveChoices \cup {0 - 1, Len(filter_set_store.conditions)}

\* remove_filter_condition fires: for a click on a listed button, for a
\* button that is not there, or without any click (the buttons were
\* created or removed).
RemoveStray ==
    /\ filter_ui_shown
    /\ \E clicked \in BOOLEAN, index \in StrayChoices :
        \E out \in {remove_filter_condition_fired(clicked, index, filter_set_store,
                table_data_store, visible_columns_store,
                Outputs(filter_set_store, table_container_view, row_count_view,
                        filter_status_view, conditions_list_view))} :
        /\ filter_set_store' = ToJson(out.filter_set)
        /\ table_container_view' = out.table_container
        /\ row_count_view' = out.row_count_display
        /\ filter_status_view' = out.filter_status
        /\ conditions_list_view' = out.conditions_list
        /\ last_call' = ThisCall(IF clicked THEN "remove" ELSE "remove_fired",
                                 filter_form, index)
        /\ UNCHANGED <<table_data_store, visible_columns_store, filter_form,
                       filter_logic_value, filter_ui_shown, download_csv,
                       engine_vars>>

\* The page of the score file with every kind of remove request.
NextStray ==
    \/ Upload(ViewFiles)
    \/ AddClick
    \/ ApplyClick
    \/ ClearClick
    \/ LogicChange
    \/ RemoveStray

SpecStray == Init /\ [][NextStray]_vars

\* A second file with other columns: one text column City and two rows.
CityFile ==
    UploadedFile(TRUE,
        RawFrame(<<"City">>, << <<TextV(<<"a">>)>>, <<TextV(<<"b">>)>> >>))

\* The page when the user loads one file after another.
NextReload ==
    \/ Upload({PeopleFile, CityFile})
    \/ AddClick
    \/ ApplyClick
    \/ ClearClick
    \/ LogicChange
    \/ RemoveClick

SpecReload == Init /\ [][NextReload]_vars

-----------------------------------------------------------------------------
(* Properties of the page                                                  *)

\* The statuses with which add_filter_condition and apply_column_filter
\* report an error.
ErrorStatuses ==
    { "Error: No data loaded.",
      "Please select column, operator, and enter/select a value.",
      "Please select column, operator, and enter/select a value before adding.",
      "Invalid operator for column.",
      "Invalid numeric value.",
      "Invalid date format.",
      "Maximum filter conditions allowed.",
      "Error applying filter." }

\* The statuses with which they report that the condition was recorded.
RecordedStatuses ==
    { "Filter condition added.", "Filter applied.", "Applied filters.",
      "No results match the current filter(s)." }

StoredColumns == [i \in 1..Len(filter_set_store.conditions) |->
                     filter_set_store.conditions[i].column_name]

\* The value as the store keeps it.
JsonValue(value) == IF value.shape = "tuple" THEN ListV(value.items) ELSE value

\* The form holds a complete condition whose operator suits the column.
WellFormed(f, table_data) ==
    /\ ~MissingInput(f)
    /\ validate_filter_operator(f.operator, ColumnTypeOf(table_data, f.column_name))

\* A between on a numeric column whose bounds convert to min > max.
InvertedBetween(f, table_data) ==
    /\ WellFormed(f, table_data)
    /\ f.operator = "between"
    /\ ColumnTypeOf(table_data, f.column_name) = "numeric"
    /\ FloatOf(f.filter_value).ok /\ FloatOf(f.filter_value2).ok
    /\ FloatOf(f.filter_value).v.k = "num" /\ FloatOf(f.filter_value2).v.k = "num"
    /\ FloatOf(f.filter_value).v.n > FloatOf(f.filter_value2).v.n

\* A value for a numeric column that does not convert to a number.
NotANumber(f, table_data) ==
    /\ WellFormed(f, table_data)
    /\ ColumnTypeOf(table_data, f.column_name) = "numeric"
    /\ ConversionFails("numeric", ActualValue(f))

\* C1: the filter set in the filter-set store never holds more than 10
\* conditions, whatever sequence of add, apply, remove, clear and logic
\* changes led to it.
C1_AtMostTenStored ==
    Len(filter_set_store.conditions) <= MAX_CONDITIONS

\* C2: an add or apply that submits a between with min > max reports an
\* error and leaves the stored filter set as it was.
C2_InvertedBetweenRejected ==
    [][ (last_call'.name \in {"add", "apply"}
         /\ InvertedBetween(last_call'.f, table_data_store))
        => (/\ filter_status_view' \in ErrorStatuses
            /\ filter_set_store' = filter_set_store) ]_vars

\* C3: an add or apply that ends in an error leaves the stored filter set,
\* the table view and the row-count display exactly as they were.
C3_ErrorKeepsSetAndView ==
    [][ (last_call'.name \in {"add", "apply"}
         /\ filter_status_view' \in ErrorStatuses)
        => (/\ filter_set_store' = filter_set_store
            /\ table_container_view' = table_container_view
            /\ row_count_view' = row_count_view) ]_vars

\* No two stored conditions name the same column.
UniqueColumns(conditions) ==
    \A i, j \in 1..Len(conditions) :
        i # j => conditions[i].column_name # conditions[j].column_name

\* C4: the stored filter set always has at most one condition per column,
\* and an add or apply that records a condition leaves the other columns'
\* conditions in their order and puts the new condition, with the form's
\* operator and value, last.
C4_OnePerColumnNewestLast ==
    /\ [](UniqueColumns(filter_set_store.conditions))
    /\ [][ (/\ last_call'.name \in {"add", "apply"}
            /\ \/ filter_status_view' \in RecordedStatuses
               \/ filter_set_store'.conditions # filter_set_store.conditions)
           => LET f   == last_call'.f
                  old == filter_set_store.conditions
                  new == filter_set_store'.conditions
              IN  /\ new # <<>>
                  /\ new[Len(new)].column_name = f.column_name
                  /\ new[Len(new)].operator = f.operator
                  /\ new[Len(new)].value = JsonValue(ActualValue(f))
                  /\ SubSeq(new, 1, Len(new) - 1)
                       = SelectSeq(old, LAMBDA c : c.column_name # f.column_name)
        ]_vars

\* An add or apply has just replaced the first of two stored conditions:
\* the column's new condition is now the last one.
C4_Witness ==
    /\ last_call.name \in {"add", "apply"}
    /\ last_call.columns_before = <<"Age", "Name">>
    /\ last_call.f.column_name = "Age"
    /\ StoredColumns = <<"Name", "Age">>
    /\ filter_set_store.conditions[2].operator = last_call.f.operator
    /\ filter_set_store.conditions[2].value = JsonValue(ActualValue(last_call.f))

\* C5: an add or apply whose value for a numeric column is not a number
\* reports an invalid-value error and leaves the stored filter set as it
\* was.
C5_NotANumberRejected ==
    [][ (last_call'.name \in {"add", "apply"}
         /\ NotANumber(last_call'.f, table_data_store))
        => (/\ filter_status_view' = "Invalid numeric value."
            /\ filter_set_store' = filter_set_store) ]_vars

-----------------------------------------------------------------------------
(* Properties of the engine runs                                           *)

RemoveAt(seq, i) == SubSeq(seq, 1, i - 1) \o SubSeq(seq, i + 1, Len(seq))

Reorderings(seq) ==
    LET n == Len(seq)
        P == {f \in [1..n -> 1..n] : \A i, j \in 1..n : f[i] = f[j] => i = j}
    IN  {[i \in 1..n |-> seq[f[i]]] : f \in P}

Kept(res) == IndexSet(res.df)

\* The rows one condition selects when evaluated alone on the whole table.
SingleOn(df, c) ==
    apply_single_filter(df, c.column_name, c.operator, c.value, c.data_type)

ListSizeInRange == Len(eng_conds) \in 1..MAX_FILTER_CONDITIONS

\* C6: for a list of 1 to 10 conditions, every row apply_multiple_filters
\* returns under AND is also returned under OR, so the AND row count is at
\* most the OR row count.
C6_AndSubsetOfOr ==
    (eng_out.called /\ eng_out.logic = "AND" /\ ListSizeInRange
        /\ ~eng_out.res.raised)
    => LET or == apply_multiple_filters(eng_df, eng_conds, "OR")
       IN  /\ ~or.raised
           /\ Kept(eng_out.res) \subseteq Kept(or)
           /\ Len(eng_out.res.df.index) <= Len(or.df.index)

\* C6 witness: an AND evaluation of two conditions that keeps some rows and
\* keeps strictly fewer rows than OR does.
C6_Witness ==
    /\ eng_out.called /\ eng_out.logic = "AND" /\ Len(eng_conds) = 2
    /\ ~eng_out.res.raised
    /\ Kept(eng_out.res) # {}
    /\ Kept(eng_out.res) # Kept(apply_multiple_filters(eng_df, eng_conds, "OR"))

\* C7: on a non-empty list, AND keeps a row iff every condition alone (on
\* the full table) selects it, OR keeps it iff at least one does, and every
\* permutation of the list gives the same outcome.
C7_MaskConjunctionDisjunction ==
    (eng_out.called /\ ListSizeInRange)
    => /\ ~eng_out.res.raised =>
            \A r \in IndexSet(eng_df) :
                r \in Kept(eng_out.res) <=>
                    IF eng_out.logic = "OR"
                    THEN \E i \in 1..Len(eng_conds) :
                            r \in Kept(SingleOn(eng_df, eng_conds[i]))
                    ELSE \A i \in 1..Len(eng_conds) :
                            r \in Kept(SingleOn(eng_df, eng_conds[i]))
       /\ \A p \in Reorderings(eng_conds) :
              apply_multiple_filters(eng_df, p, eng_out.logic) = eng_out.res

\* C7 witness: an OR evaluation of two different conditions, each of which
\* selects a row the other does not.
C7_Witness ==
    /\ eng_out.called /\ eng_out.logic = "OR" /\ Len(eng_conds) = 2
    /\ ~eng_out.res.raised
    /\ Kept(SingleOn(eng_df, eng_conds[1])) \ Kept(SingleOn(eng_df, eng_conds[2])) # {}
    /\ Kept(SingleOn(eng_df, eng_conds[2])) \ Kept(SingleOn(eng_df, eng_conds[1])) # {}

\* A condition on a column the table lacks, or with an operator outside the
\* nine known ones.
IsPassThrough(df, c) ==
    c.column_name \notin ColumnSet(df) \/ c.operator \notin KNOWN_OPERATORS

\* C8 as stated: under both AND and OR a set containing a pass-through
\* condition selects the rows the same set without it selects.
C8_PassThroughBothLogics ==
    (eng_out.called /\ ListSizeInRange)
    => \A i \in 1..Len(eng_conds) :
          IsPassThrough(eng_df, eng_conds[i])
          => eng_out.res = apply_multiple_filters(eng_df, RemoveAt(eng_conds, i),
                                                  eng_out.logic)

\* C8 amended: under AND the set selects what the set without the
\* pass-through condition selects; under OR the condition's all-true mask
\* makes the set select every row of the table.
C8_PassThroughAndOnly ==
    (eng_out.called /\ ListSizeInRange)
    => \A i \in 1..Len(eng_conds) :
          IsPassThrough(eng_df, eng_conds[i])
          => IF eng_out.logic = "AND"
             THEN eng_out.res = apply_multiple_filters(eng_df, RemoveAt(eng_conds, i), "AND")
             ELSE ~eng_out.res.raised => eng_out.res.df = eng_df

\* C8 witness: an OR evaluation of a pass-through condition together with a
\* condition that alone selects only part of the table.
C8_Witness ==
    /\ eng_out.called /\ eng_out.logic = "OR" /\ Len(eng_conds) = 2
    /\ ~eng_out.res.raised
    /\ IsPassThrough(eng_df, eng_conds[1])
    /\ ~IsPassThrough(eng_df, eng_conds[2])
    /\ Kept(SingleOn(eng_df, eng_conds[2])) # IndexSet(eng_df)
    /\ Kept(SingleOn(eng_df, eng_conds[2])) # {}

\* C9: apply_single_filter on an unknown column or an unrecognized operator
\* does not raise and returns every row of the table.
C9_UnknownIsNoOp ==
    (eng_single.called /\ IsPassThrough(eng_df, eng_conds[eng_single.index]))
    => /\ ~eng_single.res.raised
       /\ eng_single.res.df = eng_df

\* C9 witness: a between condition with min > max on an absent column of a
\* non-empty table has been evaluated alone.
C9_Witness ==
    /\ eng_single.called
    /\ eng_df.index # <<>>
    /\ eng_conds[eng_single.index].column_name \notin ColumnSet(eng_df)
    /\ eng_conds[eng_single.index].operator = "between"

\* t occurs in s as a contiguous run of characters.
IsSubstring(t, s) ==
    \E start \in 0..(Len(s) - Len(t)) : SubSeq(s, start + 1, start + Len(t)) = t

\* C10 as stated: contains, starts_with and ends_with keep a row with a
\* non-null text cell c iff lowercase(v) is a substring, prefix or suffix of
\* lowercase(c).
C10_TextOperatorsIgnoreCase ==
    LET c == eng_conds[eng_single.index] IN
    (eng_single.called /\ c.column_name \in ColumnSet(eng_df)
        /\ c.operator \in {"contains", "starts_with", "ends_with"}
        /\ c.value.shape = "scalar" /\ c.value.items[1].k = "text"
        /\ ~eng_single.res.raised)
    => \A r \in IndexSet(eng_df) :
          LET cell == eng_df.rows[r][c.column_name]
              v    == LowerStr(c.value.items[1].s)
          IN  cell.k = "text"
              => (r \in Kept(eng_single.res)
                    <=> CASE c.operator = "contains"    -> IsSubstring(v, LowerStr(cell.s))
                          [] c.operator = "starts_with" -> StartsWith(LowerStr(cell.s), v)
                          [] c.operator = "ends_with"   -> EndsWith(LowerStr(cell.s), v))

-----------------------------------------------------------------------------
(* Properties of the single-condition runs                                 *)

\* The condition of the last apply_single_filter call, and the cell it
\* reads in row r.
SingleCondition == eng_conds[eng_single.index]
SingleCell(r)   == eng_df.rows[r][SingleCondition.column_name]

\* apply_single_filter was called on a column of the table and returned.
SingleReturned ==
    /\ eng_single.called
    /\ ~eng_single.res.raised
    /\ SingleCondition.column_name \in ColumnSet(eng_df)

SingleKept == Kept(eng_single.res)

NonNullValue(value) == \A i \in 1..Len(value.items) : ~IsNull(value.items[i])

NullRows == {r \in IndexSet(eng_df) : IsNull(SingleCell(r))}

\* C11: contains, starts_with and ends_with never keep a row whose cell is
\* null, whatever the filter value.
C11_TextOperatorsDropNulls ==
    (SingleReturned
     /\ SingleCondition.operator \in {"contains", "starts_with", "ends_with"})
    => SingleKept \cap NullRows = {}

\* C12: equals, greater_than, less_than, before, after and between never
\* keep a row whose cell is null when the filter values are non-null.
C12_NullCellsNeverKept ==
    (SingleReturned
     /\ SingleCondition.operator \in
            {"equals", "greater_than", "less_than", "before", "after", "between"}
     /\ NonNullValue(SingleCondition.value))
    => SingleKept \cap NullRows = {}

\* A comparison with non-null values ran on a column that has a null cell
\* and kept some of the other rows.
C12_Witness ==
    /\ SingleReturned
    /\ SingleCondition.operator \in {"greater_than", "before", "between", "equals"}
    /\ NonNullValue(SingleCondition.value)
    /\ NullRows # {}
    /\ SingleKept # {}

\* The value of a cell or of a filter bound on the number line (numbers)
\* or the calendar (dates).
Comparable(a, b) == a.k = b.k /\ a.k \in {"num", "date"}

\* C13: on non-null cells greater_than and after keep exactly the cells
\* above the value, less_than and before exactly the cells below it, and
\* between (min, max) with min <= max exactly the cells with
\* min <= cell <= max.
C13_StrictAndInclusiveBounds ==
    SingleReturned =>
        LET c  == SingleCondition
            v1 == c.value.items[1]
            v2 == c.value.items[2]
        IN
        \A r \in IndexSet(eng_df) \ NullRows :
            /\ (c.operator \in {"greater_than", "after"} /\ Comparable(SingleCell(r), v1))
                  => (r \in SingleKept <=> SingleCell(r).n > v1.n)
            /\ (c.operator \in {"less_than", "before"} /\ Comparable(SingleCell(r), v1))
                  => (r \in SingleKept <=> SingleCell(r).n < v1.n)
            /\ (/\ c.operator = "between" /\ c.value.shape = "tuple"
                /\ Comparable(SingleCell(r), v1) /\ Comparable(v1, v2)
                /\ v1.n <= v2.n)
                  => (r \in SingleKept <=>
                         (v1.n <= SingleCell(r).n /\ SingleCell(r).n <= v2.n))

\* A between whose bounds are both values of the column kept the rows at
\* the two bounds and the row between them.
C13_Witness ==
    /\ SingleReturned
    /\ eng_df = ReferenceTable
    /\ SingleCondition.operator = "between"
    /\ SingleCondition.value = TupleV(NumV(150075), NumV(250050))
    /\ SingleKept = {1, 2, 4}

AmountBetween1500And2500 ==
    /\ eng_single.called
    /\ eng_df = ReferenceTable
    /\ SingleCondition =
           Condition("Amount", "between", TupleV(NumV(150000), NumV(250000)), "numeric")

\* C14 (as stated): on the reference table, Amount between (1500, 2500)
\* keeps exactly the rows of Charlie (1500.75) and Eve (2500.5).
C14_BetweenKeepsCharlieAndEve ==
    AmountBetween1500And2500 =>
        /\ ~eng_single.res.raised
        /\ eng_single.res.df.index = <<2, 4>>

\* C14 (amended): on the reference table, Amount between (1500, 2500)
\* keeps exactly 2 rows, those of Bob (2000.0) and Charlie (1500.75).
C14_BetweenKeepsBobAndCharlie ==
    AmountBetween1500And2500 =>
        /\ ~eng_single.res.raised
        /\ Len(eng_single.res.df.index) = 2
        /\ eng_single.res.df.index = <<1, 2>>
        /\ eng_df.rows[1].Name = Bob /\ eng_df.rows[1].Amount = NumV(200000)
        /\ eng_df.rows[2].Name = Charlie /\ eng_df.rows[2].Amount = NumV(150075)

C14_Witness ==
    /\ AmountBetween1500And2500
    /\ Len(eng_single.res.df.index) = 2

\* The rows scalar equals v selects on the table of the run.
ScalarEqualsKept(v) ==
    Kept(apply_single_filter(eng_df, SingleCondition.column_name, "equals",
                             Scalar(v), SingleCondition.data_type))

ListEquals ==
    /\ SingleReturned
    /\ SingleCondition.operator = "equals"
    /\ SingleCondition.value.shape = "list"

\* C15 (as stated): equals with a list keeps a row iff its cell equals some
\* member, and a one-element list [v] selects what scalar equals v selects.
C15_ListEqualsAnyMember ==
    ListEquals =>
        LET items == SingleCondition.value.items IN
        /\ SingleKept = {r \in IndexSet(eng_df) :
                            \E i \in 1..Len(items) :
                                /\ ~IsNull(SingleCell(r)) /\ ~IsNull(items[i])
                                /\ SingleCell(r) = items[i]}
        /\ Len(items) = 1 => SingleKept = ScalarEqualsKept(items[1])

\* C15 (amended): the same for lists of non-null members; a null member
\* matches the null cells, which scalar equals null never does.
C15_ListEqualsAnyNonNullMember ==
    ListEquals =>
        LET items == SingleCondition.value.items IN
        /\ NonNullValue(SingleCondition.value) =>
              /\ SingleKept = {r \in IndexSet(eng_df) :
                                  \E i \in 1..Len(items) : SingleCell(r) = items[i]}
              /\ SingleKept \cap NullRows = {}
              /\ Len(items) = 1 => SingleKept = ScalarEqualsKept(items[1])
        /\ (Len(items) = 1 /\ IsNull(items[1])) =>
              /\ SingleKept = NullRows
              /\ ScalarEqualsKept(items[1]) = {}

\* A two-member list kept the two rows that hold its members.
C15_Witness ==
    /\ ListEquals
    /\ Len(SingleCondition.value.items) = 2
    /\ NonNullValue(SingleCondition.value)
    /\ Cardinality(SingleKept) = 2

\* C18: a condition whose operator is not in the vocabulary of its declared
\* data type gets no mask: apply_single_filter and apply_multiple_filters
\* raise or return every row.
C18_MismatchedOperatorNotEvaluated ==
    /\ (/\ eng_single.called
        /\ SingleCondition.column_name \in ColumnSet(eng_df)
        /\ ~validate_filter_operator(SingleCondition.operator,
                                     SingleCondition.data_type))
       => (eng_single.res.raised \/ SingleKept = IndexSet(eng_df))
    /\ (/\ eng_out.called
        /\ Len(eng_conds) = 1
        /\ eng_conds[1].column_name \in ColumnSet(eng_df)
        /\ ~validate_filter_operator(eng_conds[1].operator, eng_conds[1].data_type))
       => (eng_out.res.raised \/ Kept(eng_out.res) = IndexSet(eng_df))

-----------------------------------------------------------------------------
(* Properties of the validation runs                                       *)

\* The operator table of the specification, as <<type, operator>> pairs.
ValidPairs ==
    { <<"text", "equals">>, <<"text", "contains">>,
      <<"text", "starts_with">>, <<"text", "ends_with">>,
      <<"numeric", "equals">>, <<"numeric", "greater_than">>,
      <<"numeric", "less_than">>, <<"numeric", "between">>,
      <<"date", "equals">>, <<"date", "before">>,
      <<"date", "after">>, <<"date", "between">> }

\* C16: validate_filter_operator returns true exactly for the 12 pairs of
\* the operator table and false for every other pair, whatever the type.
C16_ValidExactlyForTheTwelvePairs ==
    /\ Cardinality(ValidPairs) = 12
    /\ eng_valid.called =>
          (eng_valid.res <=> <<eng_valid.data_type, eng_valid.operator>> \in ValidPairs)

\* A date operator was accepted for a date column.
C16_Witness ==
    /\ eng_valid.called
    /\ eng_valid.data_type = "date" /\ eng_valid.operator = "before"
    /\ eng_valid.res

-----------------------------------------------------------------------------
(* Properties of the page: operator validation and the condition limit     *)

\* The operator table accepts the operator for the data type, and so does
\* validate_filter_operator.
Accepted(operator, data_type) ==
    /\ <<data_type, operator>> \in ValidPairs
    /\ validate_filter_operator(operator, data_type)

\* The form names a column and its operator does not suit the column's type.
InvalidOperator(f, table_data) ==
    /\ f.column_name # NoKey
    /\ ~Accepted(f.operator, ColumnTypeOf(table_data, f.column_name))

\* C17: every stored condition has an operator that
\* validate_filter_operator accepts for the data_type recorded with it, and
\* an add or apply whose operator does not suit the selected column's type
\* leaves the stored filter set as it was.
C17_StoredOperatorsValid ==
    /\ [](\A i \in 1..Len(filter_set_store.conditions) :
             Accepted(filter_set_store.conditions[i].operator,
                      filter_set_store.conditions[i].data_type))
    /\ [][ (/\ last_call'.name \in {"add", "apply"}
            /\ InvalidOperator(last_call'.f, table_data_store))
           => filter_set_store' = filter_set_store ]_vars

\* A between on the text column Name was submitted while conditions were
\* stored, and was refused.
C17_Witness ==
    /\ last_call.name \in {"add", "apply"}
    /\ last_call.f.column_name = "Name" /\ last_call.f.operator = "between"
    /\ ColumnTypeOf(table_data_store, "Name") = "text"
    /\ filter_status_view = "Invalid operator for column."
    /\ Len(filter_set_store.conditions) = 2

\* C19: an add of a complete, valid condition on a column without a
\* condition, made while 10 conditions are stored, is refused: the stored
\* filter set (conditions, their order, logic operator) stays as it was and
\* the maximum-conditions message is shown.
C19_EleventhAddRejected ==
    [][ (/\ last_call'.name = "add"
         /\ Len(filter_set_store.conditions) = 10
         /\ WellFormed(last_call'.f, table_data_store)
         /\ \A i \in 1..Len(filter_set_store.conditions) :
               filter_set_store.conditions[i].column_name # last_call'.f.column_name)
        => (/\ filter_set_store' = filter_set_store
            /\ filter_status_view' = "Maximum filter conditions allowed.") ]_vars

\* An add on an eleventh column was refused and the 10 conditions are
\* still stored.
C19_Witness ==
    /\ last_call.name = "add"
    /\ Len(last_call.columns_before) = 10
    /\ \A i \in 1..10 : last_call.columns_before[i] # last_call.f.column_name
    /\ filter_status_view = "Maximum filter conditions allowed."
    /\ StoredColumns = last_call.columns_before

-----------------------------------------------------------------------------
(* Properties of the long-list runs                                        *)

\* Some condition of the list that apply_multiple_filters evaluates raises
\* when evaluated on its own.
SomeConditionRaises ==
    \E i \in 1..Len(eng_conds) :
        /\ HasColumnAndOperator(eng_conds[i])
        /\ SingleOn(eng_df, eng_conds[i]).raised

\* C20: apply_multiple_filters raises on every list of more than 10
\* conditions, whatever the conditions and the logic operator, and on a list
\* of 1 to 10 conditions it raises only when one of the conditions does.
C20_MoreThanTenRefused ==
    eng_out.called =>
        /\ Len(eng_conds) > 10 => eng_out.res.raised
        /\ (Len(eng_conds) \in 1..10 /\ eng_out.res.raised) => SomeConditionRaises

\* A list of 11 conditions, none of which raises on its own, was refused.
C20_Witness ==
    /\ eng_out.called
    /\ Len(eng_conds) = 11
    /\ ~SomeConditionRaises
    /\ eng_out.res.raised

\* A list of exactly 10 conditions was evaluated and rows were returned.
C20_WitnessTen ==
    /\ eng_out.called
    /\ Len(eng_conds) = 10
    /\ ~eng_out.res.raised
    /\ Kept(eng_out.res) # {}

-----------------------------------------------------------------------------
(* Properties of the engine runs: the empty condition list                 *)

\* C21: apply_multiple_filters with an empty condition list returns the
\* table itself, every row, in the original order, under AND and under OR.
C21_EmptyListReturnsTable ==
    (eng_out.called /\ eng_conds = <<>>)
        => (~eng_out.res.raised /\ eng_out.res.df = eng_df)

\* The empty list was evaluated under OR on the table with rows.
C21_Witness ==
    /\ eng_out.called /\ eng_out.logic = "OR"
    /\ eng_conds = <<>>
    /\ Len(eng_df.index) = MaxEngineRows
    /\ eng_out.res.df.index = eng_df.index

-----------------------------------------------------------------------------
(* Properties of the page: what the table shows                            *)

\* The filter set with every condition as it was entered: a between
\* condition holds its (min, max) pair, which the store keeps as a list.
AsEntered(filter_set) ==
    [filter_set EXCEPT !.conditions =
        [i \in 1..Len(filter_set.conditions) |->
            LET c == filter_set.conditions[i]
            IN  IF c.operator = "between" /\ c.value.shape = "list"
                   /\ Len(c.value.items) = 2
                THEN [c EXCEPT !.value = TupleV(c.value.items[1], c.value.items[2])]
                ELSE c]]

\* The rows the conditions of a filter set select on the snapshot under
\* the set's logic operator.
SelectedRows(filter_set, table_data) ==
    ApplyFilterSetToDf(StoredFrame(table_data), AsEntered(filter_set), table_data)

\* The table that shows exactly the selected rows.
TableOfSelected(filter_set, table_data, visible_columns) ==
    WrappedTable(SelectedRows(filter_set, table_data).df,
                 SelectTableColumns(table_data.column_names, visible_columns))

AppliedStatuses ==
    { "Filter applied.", "Applied filters.",
      "No results match the current filter(s)." }

\* C22: an apply that follows a successful add shows exactly the rows the
\* stored conditions select under the stored logic operator, and leaves
\* the stored conditions as they were.
C22_ApplyEvaluatesStoredSet ==
    [][ (/\ last_call.name = "add"
         /\ filter_status_view = "Filter condition added."
         /\ last_call'.name = "apply")
        => (/\ filter_set_store'.conditions = filter_set_store.conditions
            /\ ~SelectedRows(filter_set_store, table_data_store).raised
            /\ table_container_view'
                 = TableOfSelected(filter_set_store, table_data_store,
                                   visible_columns_store)) ]_vars

\* C23: after a successful apply, and after a remove that leaves at least
\* one condition, the table shows exactly the rows the stored filter set
\* selects, and result_count is the number of those rows.
C23_ViewMatchesFilterSet ==
    [][ (\/ /\ last_call'.name = "apply"
            /\ filter_status_view' \in AppliedStatuses
         \/ /\ last_call'.name = "remove"
            /\ Len(filter_set_store'.conditions) = Len(filter_set_store.conditions) - 1
            /\ filter_set_store'.conditions # <<>>)
        => (/\ ~SelectedRows(filter_set_store', table_data_store).raised
            /\ table_container_view'
                 = TableOfSelected(filter_set_store', table_data_store,
                                   visible_columns_store)
            /\ filter_set_store'.result_count
                 = Len(SelectedRows(filter_set_store', table_data_store).df.index)) ]_vars

\* The remove button pressed names a stored condition.
ValidRemove(call, conditions) ==
    call.name = "remove" /\ 0 <= call.index /\ call.index < Len(conditions)

\* C24: a remove at a valid position i takes out exactly the i-th stored
\* condition and keeps the others in their order; when none remains the
\* table shows the whole snapshot with the total row count, otherwise it
\* shows the rows the remaining conditions select under the stored logic
\* operator.
C24_RemoveTakesOneAndRefreshes ==
    [][ ValidRemove(last_call', filter_set_store.conditions)
        => (/\ filter_set_store'.conditions
                 = RemoveAt(filter_set_store.conditions, last_call'.index + 1)
            /\ filter_set_store'.logic_operator = filter_set_store.logic_operator
            /\ filter_set_store'.conditions = <<>>
                 => /\ table_container_view'
                         = PlainTable(StoredFrame(table_data_store),
                               SelectTableColumns(table_data_store.column_names,
                                                  visible_columns_store))
                    /\ row_count_view'
                         = format_row_count_total(table_data_store.row_count)
            /\ filter_set_store'.conditions # <<>>
                 => /\ ~SelectedRows(filter_set_store', table_data_store).raised
                    /\ table_container_view'
                         = TableOfSelected(filter_set_store', table_data_store,
                                           visible_columns_store)) ]_vars

\* C25: clear_filter returns the initial filter set (no conditions, AND)
\* whatever the stored set was, and with a table loaded it shows every row
\* of the snapshot and the total row count.
C25_ClearResetsSetAndView ==
    [][ last_call'.name = "clear"
        => (/\ filter_set_store'.conditions = <<>>
            /\ filter_set_store'.logic_operator = "AND"
            /\ table_data_store.loaded
                 => /\ table_container_view'
                         = PlainTable(StoredFrame(table_data_store),
                               SelectTableColumns(table_data_store.column_names,
                                                  visible_columns_store))
                    /\ Len(table_container_view'.data) = table_data_store.row_count
                    /\ row_count_view'
                         = format_row_count_total(table_data_store.row_count)) ]_vars

\* Two conditions were stored and OR was selected when the set was cleared.
C25_Witness ==
    /\ last_call.name = "clear"
    /\ Len(last_call.columns_before) = 2
    /\ filter_logic_value = "OR"
    /\ filter_set_store = InitialFilterSet
    /\ table_container_view.kind = "table"
    /\ Len(table_container_view.data) = 3

\* C26: add_filter_condition never changes the displayed table or the
\* row-count display, and an add that records its condition returns a
\* filter set with result_count 0 and the logic operator the stored set
\* had.
C26_AddDoesNotEvaluate ==
    [][ last_call'.name = "add"
        => (/\ table_container_view' = table_container_view
            /\ row_count_view' = row_count_view
            /\ filter_status_view' = "Filter condition added."
                 => /\ filter_set_store'.result_count = 0
                    /\ filter_set_store'.logic_operator
                         = filter_set_store.logic_operator) ]_vars

\* A condition was added under OR while the table showed a filtered view
\* that the new set no longer describes.
C26_Witness ==
    /\ last_call.name = "add"
    /\ filter_status_view = "Filter condition added."
    /\ Len(filter_set_store.conditions) = 2
    /\ filter_set_store.logic_operator = "OR"
    /\ filter_set_store.result_count = 0
    /\ table_container_view.kind = "table"
    /\ Len(table_container_view.data) = 2

-----------------------------------------------------------------------------
(* Properties of the page: the snapshot                                    *)

\* C27: every condition of the stored filter set names a column of the
\* current snapshot, also after another file was loaded while conditions
\* were stored.
C27_StoredColumnsInSnapshot ==
    \A i \in 1..Len(filter_set_store.conditions) :
        \E j \in 1..Len(table_data_store.column_names) :
            table_data_store.column_names[j]
                = filter_set_store.conditions[i].column_name

\* The callbacks that filter or change the view.
FilterAndViewCalls ==
    {"add", "apply", "remove", "clear", "logic", "visible", "export"}

\* The snapshots a file load can store: nothing for a rejected file, the
\* prepared table of the file otherwise.
LoadedSnapshots ==
    {IF f.ok THEN prepare_table_data(f.raw) ELSE EmptyTableData : f \in ViewFiles}

\* C28: add, apply, remove, clear, logic change, visible-columns change and
\* export leave the table-data store (rows, column names, column types) as
\* it was; only a file load changes it, and it stores the new file's
\* snapshot whole.
C28_SnapshotOnlyReplacedByLoad ==
    [][ /\ last_call'.name \in FilterAndViewCalls
            => table_data_store' = table_data_store
        /\ table_data_store' # table_data_store => last_call'.name = "upload"
        /\ last_call'.name = "upload" => table_data_store' \in LoadedSnapshots ]_vars

\* Filtered rows of one column were exported and the snapshot still holds
\* its three rows and two columns.
C28_Witness ==
    /\ last_call.name = "export"
    /\ download_csv.sent
    /\ Len(download_csv.df.index) = 1
    /\ download_csv.df.columns = <<"Score">>
    /\ table_data_store = prepare_table_data(ScoreFile.raw)
    /\ Len(table_data_store.dataframe_json) = 3

-----------------------------------------------------------------------------
(* Properties of the processor runs                                        *)

\* The names are pairwise distinct.
PairwiseDistinct(names) ==
    \A i, j \in 1..Len(names) : i # j => names[i] # names[j]

\* How many of the names before position i equal the i-th one.
RepeatNumber(names, i) ==
    Cardinality({j \in 1..(i - 1) : names[j] = names[i]})

\* C29: for every sequence of column names handle_duplicate_columns
\* returns pairwise distinct names, as many as it was given and in their
\* order, with the first occurrence of a name unchanged and its k-th repeat
\* renamed to name_k.
C29_DuplicatesDisambiguated ==
    proc_out.op = "handle_duplicate_columns" =>
        LET given == proc_raw.columns
            got   == proc_out.columns
        IN  /\ Len(got) = Len(given)
            /\ \A i \in 1..Len(given) :
                  got[i] = IF RepeatNumber(given, i) = 0 THEN given[i]
                           ELSE given[i] \o "_" \o ToString(RepeatNumber(given, i))
            /\ PairwiseDistinct(got)

\* C30: the records of a prepared table, rebuilt into a frame and
\* serialised again, are the same records: one record per row, each with
\* exactly the table's columns as keys, the same value in every cell, and a
\* null cell held as an explicit None.
C30_RecordsRoundTrip ==
    proc_out.op = "round_trip" =>
        /\ proc_out.again = proc_out.records
        /\ Len(proc_out.records) = Len(proc_raw.rows)
        /\ \A i \in 1..Len(proc_out.records) :
              /\ DOMAIN proc_out.records[i]
                   = {proc_out.columns[j] : j \in 1..Len(proc_out.columns)}
              /\ \A c \in DOMAIN proc_out.records[i] :
                    IsNull(proc_out.records[i][c]) => proc_out.records[i][c] = NoneV

\* A frame with a number column and a text column, each with a missing
\* value, went through the round trip.
C30_Witness ==
    /\ proc_out.op = "round_trip"
    /\ proc_raw.columns = <<"a", "b">>
    /\ proc_raw.rows[2][1] = NaNV /\ proc_raw.rows[1][2] = NoneV
    /\ proc_out.records[2]["a"] = NoneV /\ proc_out.records[1]["a"] = NumV(5)
    /\ proc_out.records[1]["b"] = NoneV
    /\ proc_out.again = proc_out.records

-----------------------------------------------------------------------------
(* Type inference                                                          *)

\* The cells of a column of the parsed frame, as pandas stores them.
ParsedCells(j) ==
    LET cells == [r \in 1..Len(proc_raw.rows) |-> proc_raw.rows[r][j]]
    IN  [r \in 1..Len(cells) |-> StoreCell(DTypeOf(cells), cells[r])]

\* The date rule: every sampled value, as a string, parses as a date.
DateRule(cells) ==
    LET sample == SampleValues(cells)
    IN  /\ sample # <<>>
        /\ \A i \in 1..Len(sample) : ParsesAsDate(StrOf(sample[i]))

\* C31: a column that is not in date/time storage is classified date when
\* the date rule holds of its first up-to-10 non-null values, also when all
\* its values are numbers, and numeric only when the date rule fails.
C31_DateRuleBeforeNumeric ==
    proc_out.op = "detect_column_types" =>
        \A j \in 1..Len(proc_out.columns) :
            LET cells == ParsedCells(j)
                type  == proc_out.column_types[proc_out.columns[j]]
            IN  DTypeOf(cells) # "datetime64" =>
                    /\ DateRule(cells) => type = "date"
                    /\ type = "numeric" => ~DateRule(cells)

\* C35: the date decision of type inference depends on the first 10
\* non-null values of a column only: two columns with the same first 10
\* non-null values are both classified date or both not, whatever stands
\* behind those values.
C35_DateDecisionFromSampleOnly ==
    proc_out.op = "detect_column_types" =>
        \A i, j \in 1..Len(proc_out.columns) :
            SampleValues(ParsedCells(i)) = SampleValues(ParsedCells(j)) =>
                (proc_out.column_types[proc_out.columns[i]] = "date"
                    <=> proc_out.column_types[proc_out.columns[j]] = "date")

-----------------------------------------------------------------------------
(* Row-count summary                                                       *)

\* The step was an apply that evaluated the set, a remove of a stored
\* condition, or a clear.
RefreshingStep ==
    \/ /\ last_call'.name = "apply"
       /\ filter_status_view' \in AppliedStatuses
    \/ ValidRemove(last_call', filter_set_store.conditions)
    \/ last_call'.name = "clear" /\ table_data_store.loaded

\* C32: after an operation that refreshes the table, the row-count summary
\* reads "Filtered rows: {filtered} / {total}" when the filter set holds at
\* least one condition, also when every row is retained, and
\* "Total rows: {total}" exactly when it holds none.
C32_FilteredSummaryWheneverFiltered ==
    [][ RefreshingStep
        => row_count_view'
             = IF filter_set_store'.conditions # <<>>
               THEN RowCountText("filtered", Len(table_container_view'.data),
                                 table_data_store.row_count)
               ELSE RowCountText("total", table_data_store.row_count,
                                 table_data_store.row_count) ]_vars

-----------------------------------------------------------------------------
(* Export                                                                  *)

\* The columns marked visible, in the order of the snapshot; all columns
\* when none is marked.
VisibleInSnapshotOrder(table_data, visible_columns) ==
    IF visible_columns = <<>> THEN table_data.column_names
    ELSE SelectSeq(table_data.column_names,
             LAMBDA c : \E i \in 1..Len(visible_columns) : visible_columns[i] = c)

\* C33: the frame handed to the download has exactly the columns marked
\* visible, in the snapshot's column order (all columns when none is
\* marked), and its rows are the rows the stored filter set selects.
C33_ExportVisibleColumnsOfSelectedRows ==
    [][ last_call'.name = "export"
        => (/\ download_csv'.sent
            /\ download_csv'.df.columns
                 = VisibleInSnapshotOrder(table_data_store, visible_columns_store)
            /\ ~SelectedRows(filter_set_store, table_data_store).raised
            /\ download_csv'.df.index
                 = SelectedRows(filter_set_store, table_data_store).df.index) ]_vars

-----------------------------------------------------------------------------
(* Repeated evaluation                                                     *)

\* C34: a second evaluation of a condition on the same table returns what
\* the first returned, and an evaluation on the rows the first call
\* selected returns exactly those rows.
C34_SingleFilterIdempotent ==
    (eng_single.called /\ eng_out.called) =>
        /\ eng_out.given = "table" => eng_out.res = eng_single.res
        /\ eng_out.given = "selected" => eng_out.res = Return(eng_single.res.df)

\* A greater-than on the table with missing values selected two of its
\* four rows, and the second call on those two rows returned them.
C34_Witness ==
    /\ eng_single.called /\ eng_out.called
    /\ eng_out.given = "selected"
    /\ eng_conds[1].operator = "greater_than"
    /\ Len(eng_df.index) = 4
    /\ Len(eng_single.res.df.index) = 2
    /\ eng_out.res.df.index = eng_single.res.df.index

-----------------------------------------------------------------------------
(* Stored between conditions                                               *)

\* The filter set holds a between condition on a column other than `col`.
HoldsBetweenBeside(filter_set, col) ==
    \E i \in 1..Len(filter_set.conditions) :
        /\ filter_set.conditions[i].operator = "between"
        /\ filter_set.conditions[i].column_name # col

\* C36: when a filter set that holds a between condition is read back from
\* the store and evaluated (by an apply on another column, a remove that
\* leaves the between, a change of the visible columns or an export), the
\* rows are the rows the set selects with the between as first applied,
\* that is with its (min, max) pair.
C36_StoredBetweenSelectsSameRows ==
    [][ /\ ( \/ /\ last_call'.name = "apply"
                /\ filter_status_view' \in AppliedStatuses
                /\ HoldsBetweenBeside(filter_set_store', last_call'.f.column_name)
             \/ /\ ValidRemove(last_call', filter_set_store.conditions)
                /\ HoldsBetweenBeside(filter_set_store', NoKey)
             \/ /\ last_call'.name = "visible"
                /\ HoldsBetweenBeside(filter_set_store', NoKey) )
           => table_container_view'
                = TableOfSelected(filter_set_store', table_data_store,
                                  visible_columns_store')
        /\ ( /\ last_call'.name = "export"
             /\ HoldsBetweenBeside(filter_set_store, NoKey) )
           => download_csv'.df.index
                = SelectedRows(filter_set_store, table_data_store).df.index ]_vars

-----------------------------------------------------------------------------
(* Export and the displayed table                                          *)

\* The records of the frame handed to the download.
ExportedRecords(download) == convert_to_json_format(download.df)

\* C37: the rows handed to the download are the rows of the table on
\* display, restricted to the exported columns; a condition that was added
\* but not applied makes no difference to them.
C37_ExportEqualsDisplayedRows ==
    [][ last_call'.name = "export"
        => (/\ table_container_view.kind = "table"
            /\ Len(ExportedRecords(download_csv')) = Len(table_container_view.data)
            /\ \A i \in 1..Len(table_container_view.data) :
                  \A c \in ColumnSet(download_csv'.df) :
                      ExportedRecords(download_csv')[i][c]
                          = table_container_view.data[i][c]) ]_vars

-----------------------------------------------------------------------------
(* Logic operator                                                          *)

\* C38: whenever the filter controls are shown, the logic operator stored
\* in the filter set is the one selected in the filter-logic control, also
\* after clear_filter has reset the stored operator to AND.
C38_StoredLogicEqualsControl ==
    filter_ui_shown => filter_set_store.logic_operator = filter_logic_value

-----------------------------------------------------------------------------
(* Stray remove requests                                                   *)

\* The step was a remove request without a click, or one whose index
\* names no stored condition.
StrayRemoveStep ==
    \/ last_call'.name = "remove_fired"
    \/ /\ last_call'.name = "remove"
       /\ ~(0 <= last_call'.index
            /\ last_call'.index < Len(filter_set_store.conditions))

\* C39: a remove request whose index is outside 0 .. len(conditions) - 1,
\* or that fires without a click, leaves the stored filter set, the
\* conditions list, the table and the row count as they were.
C39_StrayRemoveChangesNothing ==
    [][ StrayRemoveStep
        => (/\ filter_set_store' = filter_set_store
            /\ conditions_list_view' = conditions_list_view
            /\ table_container_view' = table_container_view
            /\ row_count_view' = row_count_view) ]_vars

\* A clicked remove with the index behind the last of two stored
\* conditions was refused while a filtered table was on display.
C39_Witness ==
    /\ last_call.name = "remove"
    /\ last_call.index = Len(filter_set_store.conditions)
    /\ filter_status_view = "Invalid filter index."
    /\ Len(filter_set_store.conditions) = 2
    /\ Len(conditions_list_view) = 2
    /\ table_container_view.kind = "table"
    /\ row_count_view.kind = "filtered"

=============================================================================
